---- MODULE Spec2Model ----
(***************************************************************************)
(* The recording processing pipeline of noteme: the in-memory recording    *)
(* store, the analysis cache, the memoized STT provider and the request    *)
(* handlers processRecording, analyzeRecording, getRecording, getAnalysis. *)
(* Every request handler runs in its own goroutine; each store access is   *)
(* one critical section, so a handler is a sequence of atomic steps.       *)
(***************************************************************************)
EXTENDS Integers, FiniteSets, Sequences, TLC

\* ------------------------------------------------------------------ bounds
\* recordings uploaded; requests served by the concurrent specification
MaxRecs == 1
MaxReqs == 2

RecIds == 1..MaxRecs
\* request slots: Spec serves Reqs; SpecWide and the one-request-at-a-time
\* SpecSeq serve one request more
Reqs == 1..MaxReqs
AllReqs == 1..(MaxReqs + 1)

\* the empty :recording_id parameter
EmptyId == 0
ParamIds == {EmptyId} \cup RecIds

AnalysisValues == {"a1", "a2"}

VARIABLES
    recordings,       \* storage.recordings: id -> Recording
    analyses,         \* storage.analyses: id -> AnalysisResult
    sttProvider,      \* api.sttProvider
    sttProviderOnce,  \* api.sttProviderOnce has run
    env,              \* the STT configuration in the environment
    req,              \* the request goroutines: position, locals, response
    sttRepo,          \* api.sttRepo
    stt_requests,     \* the durable table: row id -> row
    recordingIDToDBUUIDMap,  \* api.recordingIDToDBUUIDMap: recording id -> row id
    sync,             \* the running sync and repository calls
    providerName,     \* STT_PROVIDER as read when the provider was constructed
    created,          \* how many times stt.CreateProvider has run
    calls,            \* the goroutines using the provider: position, locals
    disk,             \* the paths whose .converted.wav file exists
    pure,             \* the call of a pure function: argument and result
    asks,             \* the ask request goroutines: position, locals, response
    mem,              \* the analysis store as pointers: structs, arrays, references
    locks             \* the mutexes' holders and the goroutines taking them

\* the durable sync layer's part of the state
syncVars == <<sttRepo, stt_requests, recordingIDToDBUUIDMap, sync>>

\* the stt package's part of the state
sttVars == <<providerName, created, calls, disk>>

\* the state of the parts modelled on their own
auxVars == <<pure, asks, mem, locks>>

vars == <<recordings, analyses, sttProvider, sttProviderOnce, env, req, syncVars, sttVars,
          auxVars>>

\* ------------------------------------------------------------------ store
\* the size in bytes of an uploaded file
FileSize == 2048

NoRec ==
    [ID |-> EmptyId, Status |-> "", Duration |-> 0, Size |-> 0,
     Transcript |-> "", Confidence |-> 0, Error |-> "",
     Path |-> EmptyId, CreatedAt |-> 0]

\* the entry SaveAudio stores: the path is made from the id, the creation time
\* is the time of the upload
NewRecording(id) ==
    [ID |-> id, Status |-> "uploaded", Duration |-> 0, Size |-> FileSize,
     Transcript |-> "", Confidence |-> 0, Error |-> "",
     Path |-> id, CreatedAt |-> id]

SaveAudio(id) ==
    [x \in (DOMAIN recordings) \cup {id} |-> IF x = id THEN NewRecording(id) ELSE recordings[x]]

\* mutant: every id is taken to be known
HasRecordingAlways(id) == TRUE

HasRecording(id) == id \in DOMAIN recordings

GetRecording(id) == IF id \in DOMAIN recordings THEN recordings[id] ELSE NoRec

UpdateStatus(id, status) ==
    IF id \in DOMAIN recordings
    THEN [recordings EXCEPT ![id].Status = status]
    ELSE recordings

UpdateTranscript(id, transcript, confidence) ==
    IF id \in DOMAIN recordings
    THEN [recordings EXCEPT ![id].Transcript = transcript, ![id].Confidence = confidence]
    ELSE recordings

UpdateError(id, errorMsg) ==
    IF id \in DOMAIN recordings
    THEN [recordings EXCEPT ![id].Error = errorMsg]
    ELSE recordings

UpdateDuration(id, duration) ==
    IF id \in DOMAIN recordings
    THEN [recordings EXCEPT ![id].Duration = duration]
    ELSE recordings

\* mutant: the save is lost
SaveAnalysisDropped(id, result) == analyses

SaveAnalysis(id, result) ==
    [x \in (DOMAIN analyses) \cup {id} |-> IF x = id THEN result ELSE analyses[x]]

HasAnalysis(id) == id \in DOMAIN analyses

GetAnalysis(id) == IF id \in DOMAIN analyses THEN analyses[id] ELSE ""

\* --------------------------------------------------------------- provider
\* The configurations: a usable one; a provider name that is not supported
\* (a nil Provider); a Google key file that cannot be read or parsed (a
\* Provider holding a nil *GoogleProvider).
Envs == {"ok", "unsupported", "bad_key"}

CreateProvider ==
    CASE env = "ok" -> [provider |-> "provider", err |-> ""]
      [] env = "unsupported" -> [provider |-> "nil", err |-> "unsupported STT provider"]
      [] OTHER -> [provider |-> "nil_google", err |-> "failed to read key file"]

\* mutant: the provider is constructed by every call
getSTTProviderEachCall ==
    [provider |-> CreateProvider.provider, err |-> CreateProvider.err, created |-> TRUE]

\* sync.Once: the body runs for the first caller only; err is a local of the
\* call, so a later caller returns the stored provider with a nil error.
getSTTProvider ==
    IF ~sttProviderOnce
    THEN [provider |-> CreateProvider.provider, err |-> CreateProvider.err, created |-> TRUE]
    ELSE [provider |-> sttProvider, err |-> "", created |-> FALSE]

\* How one Transcribe call goes: the audio file cannot be used, the backend
\* answers an error, an empty transcript or a transcript. A nil *GoogleProvider
\* is dereferenced once the audio file has been read.
TranscribeOutcomes(provider) ==
    IF provider = "nil_google"
    THEN {"file_error", "panic"}
    ELSE {"file_error", "http_error", "empty", "ok"}

Confidences == {0, 90}

Transcribe(outcome, confidence) ==
    CASE outcome = "file_error" ->
            [Transcript |-> "", Confidence |-> 0, err |-> "audio file error"]
      [] outcome = "http_error" ->
            [Transcript |-> "", Confidence |-> 0, err |-> "stt api error"]
      [] outcome = "empty" ->
            [Transcript |-> "", Confidence |-> 0, err |-> "empty transcript returned"]
      [] OTHER ->
            [Transcript |-> "raw", Confidence |-> confidence, err |-> ""]

\* What the cleaning call yields: an error, an empty cleaned_text, a text.
CleanOutcomes == {"error", "empty", "ok"}

\* mutant: an empty cleaned_text is returned as it is
CleanTranscriptNoFallback(transcript, outcome) ==
    CASE outcome = "error" -> [text |-> "", err |-> "OpenAI API error"]
      [] outcome = "empty" -> [text |-> "", err |-> ""]
      [] OTHER -> [text |-> "clean", err |-> ""]

CleanTranscriptWithAI(transcript, outcome) ==
    CASE outcome = "error" -> [text |-> "", err |-> "OpenAI API error"]
      [] outcome = "empty" -> [text |-> transcript, err |-> ""]
      [] OTHER -> [text |-> "clean", err |-> ""]

\* --------------------------------------------------------------- requests
NoResp == [code |-> 0, kind |-> "", status |-> "", transcript |-> "", confidence |-> 0, error |-> "", analysis |-> ""]

IdleReq ==
    [kind |-> "", id |-> EmptyId, pc |-> "idle", rec |-> NoRec,
     provider |-> "nil", stt |-> "none", text |-> "", conf |-> 0,
     clean |-> "none", cleanedText |-> "",
     fail |-> "none", errText |-> "",
     extract |-> "none", result |-> "",
     resp |-> NoResp]

Success(kind, status, transcript, confidence, analysis) ==
    [code |-> 200, kind |-> kind, status |-> status, transcript |-> transcript,
     confidence |-> confidence, error |-> "", analysis |-> analysis]

Error(code, kind) ==
    [code |-> code, kind |-> kind, status |-> "", transcript |-> "", confidence |-> 0,
     error |-> "", analysis |-> ""]

\* The handler has returned: its locals are gone, the response and which
\* upstream calls it made remain.
Finish(q, resp) ==
    [IdleReq EXCEPT !.kind = q.kind, !.id = q.id, !.pc = "done", !.stt = q.stt,
                    !.clean = q.clean, !.extract = q.extract, !.resp = resp]

\* Requests arrive in slot order (the slots are interchangeable).
CanBegin(r) == req[r].pc = "idle" /\ \A q \in AllReqs : q < r => req[q].pc # "idle"

\* no handler is running
Quiet == \A q \in AllReqs : req[q].pc \in {"idle", "done"}

\* ------------------------------------------------------------ durable rows
\* a nil pointer field of model.STTRequest, a NULL column
NullStr == "NULL"
NullNum == -1

EmptyMetadata == [k \in {} |-> ""]

\* a model.STTRequest with nothing set
NoSTTRequest ==
    [ID |-> 0, Status |-> "", Transcript |-> NullStr, Confidence |-> NullNum,
     ErrorMessage |-> NullStr, AudioDurationMs |-> NullNum, AudioSizeBytes |-> NullNum,
     Metadata |-> EmptyMetadata]

IdleSync ==
    [kind |-> "", id |-> EmptyId, pc |-> "idle", rec |-> NoRec, dbreq |-> NoSTTRequest,
     metadata |-> EmptyMetadata, ret |-> 0, failed |-> FALSE]

\* no audio read yet
NotRead == -1

IdleCall ==
    [pc |-> "idle", path |-> EmptyId, fileExt |-> "", size |-> 0, provider |-> "nil",
     needsCleanup |-> FALSE, audioBytes |-> NotRead, transcribes |-> 0, requests |-> 0,
     outcome |-> "", err |-> ""]

\* the analysis store as the Go heap has it: the AnalysisResult structs, the
\* backing arrays of their slices, the map from recording id to *AnalysisResult
\* and the structs the callers hold a pointer to
EmptyMem == [structs |-> <<>>, arrays |-> <<>>, store |-> <<>>, held |-> {}]

\* storage.mu, storage.muAnalysis and api.mapMu
Mutexes == {"mu", "muAnalysis", "mapMu"}

\* a goroutine that has not started
IdleRun == [handler |-> "", at |-> 0, phase |-> "idle"]

\* every mutex is free and no goroutine runs
IdleLocks ==
    [holder |-> [m \in Mutexes |-> 0], run |-> [r \in AllReqs |-> IdleRun]]

\* no pure function is being called
IdlePure == [fn |-> "", arg |-> <<>>, out |-> <<>>, done |-> FALSE]

\* the parts modelled on their own are at rest
InitAux ==
    /\ pure = IdlePure
    /\ asks = <<>>
    /\ mem = EmptyMem
    /\ locks = IdleLocks

\* the state of the server after start-up
InitProgram ==
    /\ recordings = <<>>
    /\ analyses = <<>>
    /\ sttProvider = "nil"
    /\ sttProviderOnce = FALSE
    /\ env \in Envs
    /\ req = [r \in AllReqs |-> IdleReq]
    /\ sttRepo = "nil"
    /\ stt_requests = <<>>
    /\ recordingIDToDBUUIDMap = <<>>
    /\ sync = [s \in AllReqs |-> IdleSync]
    /\ providerName = ""
    /\ created = 0
    /\ calls = [c \in Reqs |-> IdleCall]
    /\ disk = {}

Init == InitProgram /\ InitAux

\* uploadRecording: storage.SaveAudio registers a fresh recording
Upload ==
    /\ \E id \in RecIds :
        /\ id \notin DOMAIN recordings
        /\ \A x \in RecIds : x < id => x \in DOMAIN recordings
        /\ recordings' = SaveAudio(id)
    /\ UNCHANGED <<analyses, sttProvider, sttProviderOnce, env, req>>
    /\ UNCHANGED syncVars
    /\ UNCHANGED sttVars
    /\ UNCHANGED auxVars

\* ------------------------------------------------------- processRecording
\* mutant: a failed recording is rejected like a processing one
IsProcessingOrFailed(rec) == rec.Status \in {"processing", "failed"}

IsProcessing(rec) == rec.Status = "processing"

\* mutant: the transcript test is inverted
HasCachedTranscriptInverted(rec) == rec.Status = "processed" /\ rec.Transcript = ""

HasCachedTranscript(rec) == rec.Status = "processed" /\ rec.Transcript # ""

\* The three error paths after the recording was set to processing: the
\* text stored by UpdateError, the text and the code of the response.
StoredError(fail, errText) ==
    CASE fail = "provider" -> "STT provider not available: " \o errText
      [] fail = "stt" -> errText
      [] OTHER -> "empty transcript"

ResponseError(fail, errText) ==
    CASE fail = "provider" -> "STT provider not available: " \o errText
      [] fail = "stt" -> errText
      [] OTHER -> "no speech detected in audio"

ResponseCode(fail) == IF fail = "provider" THEN 500 ELSE 400

\* id check, GetRecording and the status checks
ProcessBegin(r, id) ==
    /\ CanBegin(r)
    /\ LET rec == GetRecording(id)
           base == [req[r] EXCEPT !.kind = "process", !.id = id, !.rec = rec]
       IN req' = [req EXCEPT ![r] =
            IF id = EmptyId
            THEN Finish(base, Error(400, "bad_request"))
            ELSE IF ~HasRecording(id)
            THEN Finish(base, Error(404, "not_found"))
            ELSE IF IsProcessing(rec)
            THEN Finish(base, Error(409, "conflict"))
            ELSE IF HasCachedTranscript(rec)
            THEN Finish(base, Success("cached", "processed", rec.Transcript, rec.Confidence, ""))
            ELSE [base EXCEPT !.pc = "p_set_processing"]]
    /\ UNCHANGED <<recordings, analyses, sttProvider, sttProviderOnce, env>>
    /\ UNCHANGED syncVars
    /\ UNCHANGED sttVars
    /\ UNCHANGED auxVars

\* storage.UpdateStatus(id, "processing")
ProcessSetProcessing(r) ==
    /\ req[r].pc = "p_set_processing"
    /\ recordings' = UpdateStatus(req[r].id, "processing")
    /\ req' = [req EXCEPT ![r].pc = "p_get_provider"]
    /\ UNCHANGED <<analyses, sttProvider, sttProviderOnce, env>>
    /\ UNCHANGED syncVars
    /\ UNCHANGED sttVars
    /\ UNCHANGED auxVars

\* getSTTProvider(); calling Transcribe on a nil Provider panics: gin's
\* Recovery answers 500 and the rest of the handler does not run
ProcessGetProvider(r) ==
    /\ req[r].pc = "p_get_provider"
    /\ LET got == getSTTProvider
       IN /\ sttProvider' = got.provider
          /\ sttProviderOnce' = TRUE
          /\ req' = [req EXCEPT ![r] =
                IF got.err # ""
                THEN [@ EXCEPT !.pc = "p_fail_status", !.fail = "provider",
                               !.errText = got.err]
                ELSE IF got.provider = "nil"
                THEN Finish(@, Error(500, "panic"))
                ELSE [@ EXCEPT !.pc = "p_transcribe", !.provider = got.provider]]
    /\ UNCHANGED <<recordings, analyses, env>>
    /\ UNCHANGED syncVars
    /\ UNCHANGED sttVars
    /\ UNCHANGED auxVars

\* provider.Transcribe(rec.Path) and the checks of its result
ProcessTranscribe(r) ==
    /\ req[r].pc = "p_transcribe"
    /\ \E outcome \in TranscribeOutcomes(req[r].provider), confidence \in Confidences :
        LET result == Transcribe(outcome, confidence)
        IN req' = [req EXCEPT ![r] =
            IF outcome = "panic"
            THEN Finish(@, Error(500, "panic"))
            ELSE IF result.err # ""
            THEN [@ EXCEPT !.pc = "p_fail_status", !.stt = "error", !.fail = "stt",
                           !.errText = result.err]
            ELSE IF result.Transcript = ""
            THEN [@ EXCEPT !.pc = "p_fail_status", !.stt = "ok", !.fail = "empty"]
            ELSE [@ EXCEPT !.pc = "p_clean", !.stt = "ok",
                           !.text = result.Transcript, !.conf = result.Confidence]]
    /\ UNCHANGED <<recordings, analyses, sttProvider, sttProviderOnce, env>>
    /\ UNCHANGED syncVars
    /\ UNCHANGED sttVars
    /\ UNCHANGED auxVars

\* mutant: an error of the cleaning call fails the recording
ProcessCleanFails(r) ==
    /\ req[r].pc = "p_clean"
    /\ \E outcome \in CleanOutcomes :
        LET cleaned == CleanTranscriptWithAI(req[r].text, outcome)
        IN req' = [req EXCEPT ![r].pc = IF cleaned.err # "" THEN "p_fail_status"
                                        ELSE "p_update_transcript",
                              ![r].clean = outcome,
                              ![r].cleanedText =
                                  IF cleaned.err # "" THEN req[r].text ELSE cleaned.text]
    /\ UNCHANGED <<recordings, analyses, sttProvider, sttProviderOnce, env>>
    /\ UNCHANGED syncVars
    /\ UNCHANGED sttVars
    /\ UNCHANGED auxVars

\* ai.CleanTranscriptWithAI(text), falling back to text on an error
ProcessClean(r) ==
    /\ req[r].pc = "p_clean"
    /\ \E outcome \in CleanOutcomes :
        LET cleaned == CleanTranscriptWithAI(req[r].text, outcome)
        IN req' = [req EXCEPT ![r].pc = "p_update_transcript", ![r].clean = outcome,
                              ![r].cleanedText =
                                  IF cleaned.err # "" THEN req[r].text ELSE cleaned.text]
    /\ UNCHANGED <<recordings, analyses, sttProvider, sttProviderOnce, env>>
    /\ UNCHANGED syncVars
    /\ UNCHANGED sttVars
    /\ UNCHANGED auxVars

\* mutant: the transcript is not stored
ProcessUpdateTranscriptSkipped(r) ==
    /\ req[r].pc = "p_update_transcript"
    /\ recordings' = recordings
    /\ req' = [req EXCEPT ![r].pc = "p_set_processed"]
    /\ UNCHANGED <<analyses, sttProvider, sttProviderOnce, env>>
    /\ UNCHANGED syncVars
    /\ UNCHANGED sttVars
    /\ UNCHANGED auxVars

\* storage.UpdateTranscript(id, cleanedText, conf)
ProcessUpdateTranscript(r) ==
    /\ req[r].pc = "p_update_transcript"
    /\ recordings' = UpdateTranscript(req[r].id, req[r].cleanedText, req[r].conf)
    /\ req' = [req EXCEPT ![r].pc = "p_set_processed"]
    /\ UNCHANGED <<analyses, sttProvider, sttProviderOnce, env>>
    /\ UNCHANGED syncVars
    /\ UNCHANGED sttVars
    /\ UNCHANGED auxVars

\* storage.UpdateStatus(id, "processed") and the success response
ProcessSetProcessed(r) ==
    /\ req[r].pc = "p_set_processed"
    /\ recordings' = UpdateStatus(req[r].id, "processed")
    /\ req' = [req EXCEPT ![r] =
                  Finish(@, Success("ok", "processed", req[r].cleanedText, req[r].conf, ""))]
    /\ UNCHANGED <<analyses, sttProvider, sttProviderOnce, env>>
    /\ UNCHANGED syncVars
    /\ UNCHANGED sttVars
    /\ UNCHANGED auxVars

\* storage.UpdateStatus(id, "failed") on an error path
ProcessFailStatus(r) ==
    /\ req[r].pc = "p_fail_status"
    /\ recordings' = UpdateStatus(req[r].id, "failed")
    /\ req' = [req EXCEPT ![r].pc = "p_fail_error"]
    /\ UNCHANGED <<analyses, sttProvider, sttProviderOnce, env>>
    /\ UNCHANGED syncVars
    /\ UNCHANGED sttVars
    /\ UNCHANGED auxVars

\* storage.UpdateError(id, text) and the error response
ProcessFailError(r) ==
    /\ req[r].pc = "p_fail_error"
    /\ recordings' = UpdateError(req[r].id, StoredError(req[r].fail, req[r].errText))
    /\ req' = [req EXCEPT ![r] =
                  Finish(@, [Error(ResponseCode(req[r].fail), "upstream") EXCEPT
                                !.error = ResponseError(req[r].fail, req[r].errText)])]
    /\ UNCHANGED <<analyses, sttProvider, sttProviderOnce, env>>
    /\ UNCHANGED syncVars
    /\ UNCHANGED sttVars
    /\ UNCHANGED auxVars

\* ------------------------------------------------------- analyzeRecording
\* What the extraction call yields.
ExtractOutcomes == {"error"} \cup AnalysisValues

AnalyzeTranscript(outcome) ==
    IF outcome = "error"
    THEN [result |-> "", err |-> "OpenAI API error"]
    ELSE [result |-> outcome, err |-> ""]

\* id check, GetRecording and the transcript check
AnalyzeBegin(r, id) ==
    /\ CanBegin(r)
    /\ LET rec == GetRecording(id)
           base == [req[r] EXCEPT !.kind = "analyze", !.id = id, !.rec = rec]
       IN req' = [req EXCEPT ![r] =
            IF id = EmptyId
            THEN Finish(base, Error(400, "bad_request"))
            ELSE IF ~HasRecording(id)
            THEN Finish(base, Error(404, "not_found"))
            ELSE IF rec.Transcript = ""
            THEN Finish(base, Error(400, "no_transcript"))
            ELSE [base EXCEPT !.pc = "a_get_analysis"]]
    /\ UNCHANGED <<recordings, analyses, sttProvider, sttProviderOnce, env>>
    /\ UNCHANGED syncVars
    /\ UNCHANGED sttVars
    /\ UNCHANGED auxVars

\* storage.GetAnalysis(id): an existing analysis is returned
AnalyzeGetAnalysis(r) ==
    /\ req[r].pc = "a_get_analysis"
    /\ req' = [req EXCEPT ![r] =
            IF HasAnalysis(req[r].id)
            THEN Finish(@, Success("cached", "", "", 0, GetAnalysis(req[r].id)))
            ELSE [@ EXCEPT !.pc = "a_analyze"]]
    /\ UNCHANGED <<recordings, analyses, sttProvider, sttProviderOnce, env>>
    /\ UNCHANGED syncVars
    /\ UNCHANGED sttVars
    /\ UNCHANGED auxVars

\* mutant: a failed extraction is stored as an analysis
AnalyzeCallStoresFailure(r) ==
    /\ req[r].pc = "a_analyze"
    /\ \E outcome \in ExtractOutcomes :
        LET got == AnalyzeTranscript(outcome)
        IN /\ req' = [req EXCEPT ![r] =
                IF got.err # ""
                THEN Finish([@ EXCEPT !.extract = "error"], Error(500, "upstream"))
                ELSE [@ EXCEPT !.pc = "a_save", !.extract = "ok", !.result = got.result]]
           /\ analyses' = IF got.err # "" THEN SaveAnalysis(req[r].id, got.result)
                          ELSE analyses
    /\ UNCHANGED <<recordings, sttProvider, sttProviderOnce, env>>
    /\ UNCHANGED syncVars
    /\ UNCHANGED sttVars
    /\ UNCHANGED auxVars

\* ai.AnalyzeTranscript(rec.Transcript, detectedContext)
AnalyzeCall(r) ==
    /\ req[r].pc = "a_analyze"
    /\ \E outcome \in ExtractOutcomes :
        LET got == AnalyzeTranscript(outcome)
        IN req' = [req EXCEPT ![r] =
            IF got.err # ""
            THEN Finish([@ EXCEPT !.extract = "error"], Error(500, "upstream"))
            ELSE [@ EXCEPT !.pc = "a_save", !.extract = "ok", !.result = got.result]]
    /\ UNCHANGED <<recordings, analyses, sttProvider, sttProviderOnce, env>>
    /\ UNCHANGED syncVars
    /\ UNCHANGED sttVars
    /\ UNCHANGED auxVars

\* storage.SaveAnalysis(id, result) and the success response
AnalyzeSave(r) ==
    /\ req[r].pc = "a_save"
    /\ analyses' = SaveAnalysis(req[r].id, req[r].result)
    /\ req' = [req EXCEPT ![r] = Finish(@, Success("ok", "", "", 0, req[r].result))]
    /\ UNCHANGED <<recordings, sttProvider, sttProviderOnce, env>>
    /\ UNCHANGED syncVars
    /\ UNCHANGED sttVars
    /\ UNCHANGED auxVars

\* ------------------------------------------------------ durable repository
\* postgresRepository.Create: INSERT INTO stt_requests
Create(dbreq) ==
    [x \in (DOMAIN stt_requests) \cup {dbreq.ID} |->
        IF x = dbreq.ID THEN dbreq ELSE stt_requests[x]]

\* GetByID: the row, unless there is none or it is soft-deleted
GetByID(id) ==
    IF id \in DOMAIN stt_requests /\ stt_requests[id].Status # "deleted"
    THEN [ok |-> TRUE, Metadata |-> stt_requests[id].Metadata]
    ELSE [ok |-> FALSE, Metadata |-> EmptyMetadata]

\* mutant: the column takes the argument also when it is NULL
CoalesceOverwrites(new, old, null) == new

\* COALESCE($n, column)
Coalesce(new, old, null) == IF new # null THEN new ELSE old

\* mutant: the new metadata replaces the existing one
MergeMetadataReplaces(existing, new) == new

\* UpdateResult: for k, v := range req.Metadata { existingMetadata[k] = v }
MergeMetadata(existing, new) ==
    [k \in (DOMAIN existing) \cup (DOMAIN new) |->
        IF k \in DOMAIN new THEN new[k] ELSE existing[k]]

\* mutant: the columns are assigned without COALESCE
UpdateRowAssigns(row, dbreq, metadataJSON) ==
    [row EXCEPT !.Transcript = dbreq.Transcript,
                !.Confidence = dbreq.Confidence,
                !.Status = dbreq.Status,
                !.ErrorMessage = dbreq.ErrorMessage,
                !.AudioDurationMs = dbreq.AudioDurationMs,
                !.AudioSizeBytes = dbreq.AudioSizeBytes,
                !.Metadata = IF DOMAIN dbreq.Metadata # {} THEN metadataJSON ELSE @]

\* UpdateResult: the SET clause; Status is a string and so never NULL
UpdateRow(row, dbreq, metadataJSON) ==
    [row EXCEPT !.Transcript = Coalesce(dbreq.Transcript, @, NullStr),
                !.Confidence = Coalesce(dbreq.Confidence, @, NullNum),
                !.Status = Coalesce(dbreq.Status, @, NullStr),
                !.ErrorMessage = Coalesce(dbreq.ErrorMessage, @, NullStr),
                !.AudioDurationMs = Coalesce(dbreq.AudioDurationMs, @, NullNum),
                !.AudioSizeBytes = Coalesce(dbreq.AudioSizeBytes, @, NullNum),
                !.Metadata = IF DOMAIN dbreq.Metadata # {} THEN metadataJSON ELSE @]

\* UpdateResult: UPDATE stt_requests ... WHERE id = dbreq.ID
ExecUpdate(dbreq, metadataJSON) ==
    IF dbreq.ID \in DOMAIN stt_requests
    THEN [stt_requests EXCEPT ![dbreq.ID] = UpdateRow(@, dbreq, metadataJSON)]
    ELSE stt_requests

\* ------------------------------------------------------ durable sync layer
\* the row ids in use: those of the rows and those a running call has drawn
UsedUUIDs ==
    (DOMAIN stt_requests) \cup {sync[q].dbreq.ID : q \in {x \in AllReqs : sync[x].pc = "c_exec"}}

\* uuid.New(): an id not in use (the ids are interchangeable)
NewUUID ==
    CHOOSE n \in 1..(Cardinality(UsedUUIDs) + 1) :
        n \notin UsedUUIDs /\ \A m \in 1..(n - 1) : m \in UsedUUIDs

\* syncToDatabase: the request built from the recording for an update
UpdateRequestOf(dbUUID, rec) ==
    [NoSTTRequest EXCEPT
        !.ID = dbUUID,
        !.Status = rec.Status,
        !.AudioDurationMs = IF rec.Duration > 0 THEN rec.Duration * 1000 ELSE NullNum,
        !.AudioSizeBytes = IF rec.Size > 0 THEN rec.Size ELSE NullNum,
        !.Transcript = IF rec.Transcript # "" THEN rec.Transcript ELSE NullStr,
        !.Confidence = IF rec.Transcript # "" THEN rec.Confidence ELSE NullNum,
        !.ErrorMessage = IF rec.Error # "" THEN rec.Error ELSE NullStr]

\* syncToDatabase: the request built from the recording for a new row
CreateRequestOf(dbUUID, recordingID, rec) ==
    [UpdateRequestOf(dbUUID, rec) EXCEPT
        !.Metadata = [k \in {"recording_id"} |-> recordingID]]

\* syncAnalysisToDatabase: the request that carries the analysis
AnalysisRequestOf(dbUUID, recordingID, analysis) ==
    [NoSTTRequest EXCEPT
        !.ID = dbUUID,
        !.Status = "success",
        !.Metadata = [k \in {"recording_id", "ai_analysis"} |->
                         IF k = "recording_id" THEN recordingID ELSE analysis]]

\* The call has returned: its locals are gone, what it returned remains.
FinishSync(q, ret, failed) ==
    [IdleSync EXCEPT !.kind = q.kind, !.id = q.id, !.pc = "done", !.ret = ret,
                     !.failed = failed]

\* Calls start in slot order (the slots are interchangeable).
CanBeginSync(s) == sync[s].pc = "idle" /\ \A q \in AllReqs : q < s => sync[q].pc # "idle"

\* no sync or repository call is running
SyncQuiet == \A s \in AllReqs : sync[s].pc \in {"idle", "done"}

\* UpdateResult reads the row first only when the request carries metadata
UpdateEntry(dbreq) == IF DOMAIN dbreq.Metadata # {} THEN "u_get" ELSE "u_exec"

\* InitSTTRepository(repo), at startup
InitSTTRepository ==
    /\ sttRepo = "nil"
    /\ recordings = <<>>
    /\ SyncQuiet
    /\ sttRepo' = "repo"
    /\ UNCHANGED <<recordings, analyses, sttProvider, sttProviderOnce, env, req>>
    /\ UNCHANGED sttVars
    /\ UNCHANGED auxVars
    /\ UNCHANGED <<stt_requests, recordingIDToDBUUIDMap, sync>>

\* syncToDatabase: the sttRepo check and storage.GetRecording
SyncBegin(s, id) ==
    /\ CanBeginSync(s)
    /\ LET base == [sync[s] EXCEPT !.kind = "recording", !.id = id]
       IN sync' = [sync EXCEPT ![s] =
            IF sttRepo = "nil"
            THEN FinishSync(base, 0, FALSE)
            ELSE IF ~HasRecording(id)
            THEN FinishSync(base, 0, FALSE)
            ELSE [base EXCEPT !.pc = "s_lookup", !.rec = GetRecording(id)]]
    /\ UNCHANGED <<recordings, analyses, sttProvider, sttProviderOnce, env, req>>
    /\ UNCHANGED sttVars
    /\ UNCHANGED auxVars
    /\ UNCHANGED <<sttRepo, stt_requests, recordingIDToDBUUIDMap>>

\* syncToDatabase: the lookup in recordingIDToDBUUIDMap and the request built
SyncLookup(s) ==
    /\ sync[s].pc = "s_lookup"
    /\ sync' = [sync EXCEPT ![s] =
            IF sync[s].id \in DOMAIN recordingIDToDBUUIDMap
            THEN LET dbreq == UpdateRequestOf(recordingIDToDBUUIDMap[sync[s].id], sync[s].rec)
                 IN [@ EXCEPT !.pc = UpdateEntry(dbreq), !.dbreq = dbreq]
            ELSE [@ EXCEPT !.pc = "c_exec",
                           !.dbreq = CreateRequestOf(NewUUID, sync[s].id, sync[s].rec)]]
    /\ UNCHANGED <<recordings, analyses, sttProvider, sttProviderOnce, env, req>>
    /\ UNCHANGED sttVars
    /\ UNCHANGED auxVars
    /\ UNCHANGED <<sttRepo, stt_requests, recordingIDToDBUUIDMap>>

\* mutant: the error of Create is ignored
SyncCreateIgnoresError(s) ==
    /\ sync[s].pc = "c_exec"
    /\ \E ok \in BOOLEAN :
        /\ stt_requests' = IF ok THEN Create(sync[s].dbreq) ELSE stt_requests
        /\ sync' = [sync EXCEPT ![s] =
                IF sync[s].kind = "recording"
                THEN [@ EXCEPT !.pc = "s_store", !.failed = ~ok]
                ELSE FinishSync(@, sync[s].dbreq.ID, ~ok)]
    /\ UNCHANGED <<recordings, analyses, sttProvider, sttProviderOnce, env, req>>
    /\ UNCHANGED sttVars
    /\ UNCHANGED auxVars
    /\ UNCHANGED <<sttRepo, recordingIDToDBUUIDMap>>

\* sttRepo.Create(ctx, sttReq): the insert, or an error
SyncCreate(s) ==
    /\ sync[s].pc = "c_exec"
    /\ \E ok \in BOOLEAN :
        IF ok
        THEN /\ stt_requests' = Create(sync[s].dbreq)
             /\ sync' = [sync EXCEPT ![s] =
                    IF sync[s].kind = "recording"
                    THEN [@ EXCEPT !.pc = "s_store"]
                    ELSE FinishSync(@, sync[s].dbreq.ID, FALSE)]
        ELSE /\ stt_requests' = stt_requests
             /\ sync' = [sync EXCEPT ![s] = FinishSync(@, 0, TRUE)]
    /\ UNCHANGED <<recordings, analyses, sttProvider, sttProviderOnce, env, req>>
    /\ UNCHANGED sttVars
    /\ UNCHANGED auxVars
    /\ UNCHANGED <<sttRepo, recordingIDToDBUUIDMap>>

\* syncToDatabase: recordingIDToDBUUIDMap[recordingID] = sttReq.ID
SyncStore(s) ==
    /\ sync[s].pc = "s_store"
    /\ recordingIDToDBUUIDMap' =
            [x \in (DOMAIN recordingIDToDBUUIDMap) \cup {sync[s].id} |->
                IF x = sync[s].id THEN sync[s].dbreq.ID ELSE recordingIDToDBUUIDMap[x]]
    /\ sync' = [sync EXCEPT ![s] = FinishSync(@, sync[s].dbreq.ID, FALSE)]
    /\ UNCHANGED <<recordings, analyses, sttProvider, sttProviderOnce, env, req>>
    /\ UNCHANGED sttVars
    /\ UNCHANGED auxVars
    /\ UNCHANGED <<sttRepo, stt_requests>>

\* UpdateResult: r.GetByID and the merge into the metadata read
UpdateGet(s) ==
    /\ sync[s].pc = "u_get"
    /\ \E ok \in BOOLEAN :
        LET got == GetByID(sync[s].dbreq.ID)
            existingMetadata == IF ok /\ got.ok THEN got.Metadata ELSE EmptyMetadata
        IN sync' = [sync EXCEPT ![s].pc = "u_exec",
                                ![s].metadata =
                                    MergeMetadata(existingMetadata, sync[s].dbreq.Metadata)]
    /\ UNCHANGED <<recordings, analyses, sttProvider, sttProviderOnce, env, req>>
    /\ UNCHANGED sttVars
    /\ UNCHANGED auxVars
    /\ UNCHANGED <<sttRepo, stt_requests, recordingIDToDBUUIDMap>>

\* mutant: a failed update marks the recording failed
UpdateExecFailsRecording(s) ==
    /\ sync[s].pc = "u_exec"
    /\ \E ok \in BOOLEAN :
        IF ok
        THEN /\ stt_requests' = ExecUpdate(sync[s].dbreq, sync[s].metadata)
             /\ sync' = [sync EXCEPT ![s] = FinishSync(@, sync[s].dbreq.ID, FALSE)]
             /\ recordings' = recordings
        ELSE /\ stt_requests' = stt_requests
             /\ sync' = [sync EXCEPT ![s] = FinishSync(@, 0, TRUE)]
             /\ recordings' = UpdateStatus(sync[s].id, "failed")
    /\ UNCHANGED <<analyses, sttProvider, sttProviderOnce, env, req>>
    /\ UNCHANGED sttVars
    /\ UNCHANGED auxVars
    /\ UNCHANGED <<sttRepo, recordingIDToDBUUIDMap>>

\* UpdateResult: r.db.ExecContext, the update or an error; the sync function
\* returns the row id, or uuid.Nil on an error
UpdateExec(s) ==
    /\ sync[s].pc = "u_exec"
    /\ \E ok \in BOOLEAN :
        IF ok
        THEN /\ stt_requests' = ExecUpdate(sync[s].dbreq, sync[s].metadata)
             /\ sync' = [sync EXCEPT ![s] = FinishSync(@, sync[s].dbreq.ID, FALSE)]
        ELSE /\ stt_requests' = stt_requests
             /\ sync' = [sync EXCEPT ![s] = FinishSync(@, 0, TRUE)]
    /\ UNCHANGED <<recordings, analyses, sttProvider, sttProviderOnce, env, req>>
    /\ UNCHANGED sttVars
    /\ UNCHANGED auxVars
    /\ UNCHANGED <<sttRepo, recordingIDToDBUUIDMap>>

\* syncAnalysisToDatabase: the sttRepo check, the lookup and the request built
AnalysisSyncBegin(s, id, analysis) ==
    /\ CanBeginSync(s)
    /\ LET base == [sync[s] EXCEPT !.kind = "analysis", !.id = id]
       IN sync' = [sync EXCEPT ![s] =
            IF sttRepo = "nil"
            THEN FinishSync(base, 0, FALSE)
            ELSE IF id \notin DOMAIN recordingIDToDBUUIDMap
            THEN FinishSync(base, 0, FALSE)
            ELSE LET dbreq == AnalysisRequestOf(recordingIDToDBUUIDMap[id], id, analysis)
                 IN [base EXCEPT !.pc = UpdateEntry(dbreq), !.dbreq = dbreq]]
    /\ UNCHANGED <<recordings, analyses, sttProvider, sttProviderOnce, env, req>>
    /\ UNCHANGED sttVars
    /\ UNCHANGED auxVars
    /\ UNCHANGED <<sttRepo, stt_requests, recordingIDToDBUUIDMap>>

\* ---- callers of the repository other than the sync layer
\* the metadata a caller can pass
Metadatas ==
    {EmptyMetadata}
    \cup {[k \in {"recording_id"} |-> id] : id \in RecIds}
    \cup {[k \in {"ai_analysis"} |-> a] : a \in AnalysisValues}
    \cup {[k \in {"recording_id", "ai_analysis"} |-> IF k = "recording_id" THEN id ELSE a] :
              id \in RecIds, a \in AnalysisValues}

\* STTRepository.Create called with a new request
RepoCreate(s, metadata) ==
    /\ CanBeginSync(s)
    /\ sync' = [sync EXCEPT ![s] =
            [@ EXCEPT !.kind = "create", !.pc = "c_exec",
                      !.dbreq = [NoSTTRequest EXCEPT !.ID = NewUUID, !.Status = "processing",
                                                     !.Metadata = metadata]]]
    /\ UNCHANGED <<recordings, analyses, sttProvider, sttProviderOnce, env, req>>
    /\ UNCHANGED sttVars
    /\ UNCHANGED auxVars
    /\ UNCHANGED <<sttRepo, stt_requests, recordingIDToDBUUIDMap>>

\* STTRepository.UpdateResult called for an existing row
RepoUpdateResult(s, dbUUID, metadata) ==
    /\ CanBeginSync(s)
    /\ dbUUID \in DOMAIN stt_requests
    /\ LET dbreq == [NoSTTRequest EXCEPT !.ID = dbUUID, !.Status = "success",
                                         !.Metadata = metadata]
       IN sync' = [sync EXCEPT ![s] =
            [@ EXCEPT !.kind = "update", !.pc = UpdateEntry(dbreq), !.dbreq = dbreq]]
    /\ UNCHANGED <<recordings, analyses, sttProvider, sttProviderOnce, env, req>>
    /\ UNCHANGED sttVars
    /\ UNCHANGED auxVars
    /\ UNCHANGED <<sttRepo, stt_requests, recordingIDToDBUUIDMap>>

\* STTRepository.Delete: the soft delete
RepoDelete(dbUUID) ==
    /\ dbUUID \in DOMAIN stt_requests
    /\ stt_requests[dbUUID].Status # "deleted"
    /\ stt_requests' = [stt_requests EXCEPT ![dbUUID].Status = "deleted"]
    /\ UNCHANGED <<recordings, analyses, sttProvider, sttProviderOnce, env, req>>
    /\ UNCHANGED sttVars
    /\ UNCHANGED auxVars
    /\ UNCHANGED <<sttRepo, recordingIDToDBUUIDMap, sync>>

\* ------------------------------------------------------- the stt package
\* len(audioBytes) < 1000 in both providers
MinAudioBytes == 1000

\* the sizes of an audio file: under, at and over the threshold
Sizes == {MinAudioBytes - 1, MinAudioBytes, FileSize}

Extensions == {".m4a", ".aac", ".wav"}

\* Transcribe: fileExt == ".m4a" || fileExt == ".aac"
NeedsConversion(fileExt) == fileExt \in {".m4a", ".aac"}

\* CreateProvider: the provider STT_PROVIDER names in each configuration
ProviderNames(e) ==
    CASE e = "ok" -> {"fpt", "google"}
      [] e = "bad_key" -> {"google"}
      [] OTHER -> {"other"}

\* convertM4AToWAV: ffmpeg writes the file; ffmpeg fails having written
\* nothing; ffmpeg fails having written part of the file; the file is not
\* there for os.Stat; the file is under 1000 bytes and is removed
ConvertOutcomes == {"ok", "failed", "partial", "missing", "small"}

\* mutant: no payload is too small
TooSmallNever(n) == FALSE

TooSmall(n) == n < MinAudioBytes

\* the deferred os.Remove(actualAudioPath) of GoogleProvider.Transcribe
Cleanup(call) == IF call.needsCleanup THEN disk \ {call.path} ELSE disk

\* Transcribe returns to processRecording: its locals are gone
Return(call, outcome) ==
    [IdleCall EXCEPT !.pc = "done", !.provider = call.provider,
                     !.audioBytes = call.audioBytes, !.transcribes = call.transcribes,
                     !.requests = call.requests, !.outcome = outcome,
                     !.err = IF outcome = "panic" THEN "panic" ELSE Transcribe(outcome, 0).err]

CanBeginCall(c) ==
    /\ calls[c].pc = "idle"
    /\ \A c2 \in Reqs : c2 < c => calls[c2].pc # "idle"

\* processRecording reaches getSTTProvider for a recording's file
CallBegin(c, path, fileExt, size) ==
    /\ CanBeginCall(c)
    /\ calls' = [calls EXCEPT ![c] =
            [@ EXCEPT !.pc = "get_provider", !.path = path, !.fileExt = fileExt, !.size = size]]
    /\ UNCHANGED <<recordings, analyses, sttProvider, sttProviderOnce, env, req>>
    /\ UNCHANGED syncVars
    /\ UNCHANGED <<providerName, created, disk>>
    /\ UNCHANGED auxVars

\* getSTTProvider() and the call of provider.Transcribe(rec.Path)
CallGetProvider(c) ==
    /\ calls[c].pc = "get_provider"
    /\ \E name \in ProviderNames(env) :
        LET got == getSTTProvider
            variant == IF got.created THEN name ELSE providerName
        IN /\ sttProvider' = got.provider
           /\ sttProviderOnce' = TRUE
           /\ created' = IF got.created THEN created + 1 ELSE created
           /\ providerName' = variant
           /\ calls' = [calls EXCEPT ![c] =
                IF got.err # ""
                THEN [Return(@, "provider_error") EXCEPT !.err = got.err]
                ELSE IF got.provider = "nil"
                THEN [Return(@, "panic") EXCEPT !.transcribes = @ + 1]
                ELSE [@ EXCEPT !.provider = got.provider, !.transcribes = @ + 1,
                               !.pc = IF variant = "google" /\ NeedsConversion(calls[c].fileExt)
                                      THEN "t_convert" ELSE "t_read"]]
    /\ UNCHANGED <<recordings, analyses, env, req>>
    /\ UNCHANGED syncVars
    /\ UNCHANGED disk
    /\ UNCHANGED auxVars

\* GoogleProvider.Transcribe: convertM4AToWAV(audioPath)
TranscribeConvert(c) ==
    /\ calls[c].pc = "t_convert"
    /\ \E outcome \in ConvertOutcomes :
        /\ disk' = CASE outcome \in {"ok", "partial"} -> disk \cup {calls[c].path}
                      [] outcome \in {"missing", "small"} -> disk \ {calls[c].path}
                      [] OTHER -> disk
        /\ calls' = [calls EXCEPT ![c] =
                IF outcome = "ok"
                THEN [@ EXCEPT !.pc = "t_read", !.needsCleanup = TRUE]
                ELSE Return(@, "file_error")]
    /\ UNCHANGED <<recordings, analyses, sttProvider, sttProviderOnce, env, req>>
    /\ UNCHANGED syncVars
    /\ UNCHANGED <<providerName, created>>
    /\ UNCHANGED auxVars

\* Transcribe: os.ReadFile and the check of len(audioBytes)
TranscribeRead(c) ==
    /\ calls[c].pc = "t_read"
    /\ \E ok \in BOOLEAN :
        LET readable == ok /\ (calls[c].needsCleanup => calls[c].path \in disk)
            n == IF calls[c].needsCleanup THEN FileSize ELSE calls[c].size
        IN IF readable /\ ~TooSmall(n)
           THEN /\ calls' = [calls EXCEPT ![c] = [@ EXCEPT !.pc = "t_send", !.audioBytes = n]]
                /\ disk' = disk
           ELSE /\ calls' = [calls EXCEPT ![c] =
                        Return([@ EXCEPT !.audioBytes = IF readable THEN n ELSE NotRead],
                               "file_error")]
                /\ disk' = Cleanup(calls[c])
    /\ UNCHANGED <<recordings, analyses, sttProvider, sttProviderOnce, env, req>>
    /\ UNCHANGED syncVars
    /\ UNCHANGED <<providerName, created>>
    /\ UNCHANGED auxVars

\* mutant: a request that failed is sent once more
TranscribeSendRetries(c) ==
    /\ calls[c].pc = "t_send"
    /\ \E outcome \in {"http_error", "empty", "ok"}, confidence \in Confidences :
        IF calls[c].provider = "nil_google"
        THEN calls' = [calls EXCEPT ![c] = Return(@, "panic")]
        ELSE IF outcome = "http_error" /\ calls[c].requests = 0
        THEN calls' = [calls EXCEPT ![c] = [@ EXCEPT !.requests = @ + 1]]
        ELSE calls' = [calls EXCEPT ![c] = Return([@ EXCEPT !.requests = @ + 1], outcome)]
    /\ disk' = IF calls'[c].pc = "done" THEN Cleanup(calls[c]) ELSE disk
    /\ UNCHANGED <<recordings, analyses, sttProvider, sttProviderOnce, env, req>>
    /\ UNCHANGED syncVars
    /\ UNCHANGED <<providerName, created>>
    /\ UNCHANGED auxVars

\* Transcribe: the one client.Do(req) and the checks of the response; a nil
\* *GoogleProvider is dereferenced before the request is built
TranscribeSend(c) ==
    /\ calls[c].pc = "t_send"
    /\ \E outcome \in {"http_error", "empty", "ok"}, confidence \in Confidences :
        IF calls[c].provider = "nil_google"
        THEN calls' = [calls EXCEPT ![c] = Return(@, "panic")]
        ELSE calls' = [calls EXCEPT ![c] = Return([@ EXCEPT !.requests = @ + 1], outcome)]
    /\ disk' = Cleanup(calls[c])
    /\ UNCHANGED <<recordings, analyses, sttProvider, sttProviderOnce, env, req>>
    /\ UNCHANGED syncVars
    /\ UNCHANGED <<providerName, created>>
    /\ UNCHANGED auxVars

\* one step of a running sync or repository call
SyncStep(s) ==
    \/ SyncLookup(s)
    \/ SyncCreate(s)
    \/ SyncStore(s)
    \/ UpdateGet(s)
    \/ UpdateExec(s)

\* ------------------------------------------------------------ DetectContext
\* a transcript is a sequence of words, at most MaxLen of them
MaxLen == 3

\* the keyword lists, written here without the diacritics of the source

meetingKeywords ==
    <<"hop", "du an", "deadline", "gui", "bao cao",
      "khach hang", "dong nghiep", "team", "nhom",
      "thong nhat", "chot", "phe duyet", "approve",
      "task", "cong viec", "nhiem vu">>

lectureKeywords ==
    <<"bai giang", "thay", "co", "chuong", "vi du",
      "kien thuc", "hoc", "giai thich", "dinh nghia",
      "khai niem", "nguyen ly", "phuong phap">>

\* the words of the transcripts explored
Words == {"hop", "HOP", "Deadline", "cong viec", "thay", "hoc", "troi"}

\* strings.ToLower on a word
ToLowerWord(w) ==
    CASE w = "HOP" -> "hop"
      [] w = "Deadline" -> "deadline"
      [] OTHER -> w

\* strings.ToLower(transcript)
ToLower(transcript) == [i \in DOMAIN transcript |-> ToLowerWord(transcript[i])]

\* strings.Contains on a word: "cong viec" begins with "co"; the comparison
\* is by bytes, so an upper-case word contains no lower-case keyword
WordContains(w, keyword) ==
    \/ w = keyword
    \/ w = "cong viec" /\ keyword = "co"

\* strings.Contains(transcript, keyword)
Contains(transcript, keyword) ==
    \E i \in DOMAIN transcript : WordContains(transcript[i], keyword)

RECURSIVE CountMatches(_, _, _)
\* the loop over the keywords: the count of those the transcript contains
CountMatches(transcript, keywords, n) ==
    IF n = 0 THEN 0
    ELSE CountMatches(transcript, keywords, n - 1)
         + (IF Contains(transcript, keywords[n]) THEN 1 ELSE 0)

\* mutant: a tie goes to lecture
DetectContextTieToLecture(transcript) ==
    LET lowered == ToLower(transcript)
        meetingCount == CountMatches(lowered, meetingKeywords, Len(meetingKeywords))
        lectureCount == CountMatches(lowered, lectureKeywords, Len(lectureKeywords))
    IN IF meetingCount > 0 /\ meetingCount > lectureCount THEN "meeting"
       ELSE IF lectureCount > 0 THEN "lecture"
       ELSE "thinking"

DetectContext(transcript) ==
    LET lowered == ToLower(transcript)
        meetingCount == CountMatches(lowered, meetingKeywords, Len(meetingKeywords))
        lectureCount == CountMatches(lowered, lectureKeywords, Len(lectureKeywords))
    IN IF meetingCount > 0 /\ meetingCount >= lectureCount THEN "meeting"
       ELSE IF lectureCount > 0 THEN "lecture"
       ELSE "thinking"

\* the sequences over a set of at most n elements
SeqsUpTo(S, n) == UNION {[1..k -> S] : k \in 0..n}

Transcripts == SeqsUpTo(Words, MaxLen)

\* a caller holds a transcript
InitDetectContext ==
    /\ InitProgram
    /\ pure \in {[IdlePure EXCEPT !.fn = "DetectContext", !.arg = t] : t \in Transcripts}
    /\ asks = <<>>
    /\ mem = EmptyMem
    /\ locks = IdleLocks

\* ai.DetectContext(transcript)
CallDetectContext ==
    /\ pure.fn = "DetectContext"
    /\ ~pure.done
    /\ pure' = [pure EXCEPT !.out = DetectContext(pure.arg), !.done = TRUE]
    /\ UNCHANGED <<recordings, analyses, sttProvider, sttProviderOnce, env, req>>
    /\ UNCHANGED <<syncVars, sttVars, asks, mem, locks>>

\* ------------------------------------- AnalyzeTranscript: the parsed result
\* a text is a sequence of characters; a summary has at most MaxSummary items
MaxSummary == 4

\* the summary items explored: empty, plain, ending in a space
Items == {<<>>, <<"a">>, <<"b">>, <<"a", " ">>}

Summaries == SeqsUpTo(Items, MaxSummary)

\* what the model's JSON can parse to
ParsedResults ==
    [Context : {"", "meeting"}, Summary : Summaries, ActionItems : {<<>>},
     KeyPoints : {<<>>, << <<"k">> >>}, ZaloBrief : {<<>>, <<"z">>}]

IsSpace(c) == c \in {" ", "\n", "\t", "\r"}

RECURSIVE TrimLeft(_)
TrimLeft(text) ==
    IF text # <<>> /\ IsSpace(Head(text)) THEN TrimLeft(Tail(text)) ELSE text

RECURSIVE TrimRight(_)
TrimRight(text) ==
    IF text # <<>> /\ IsSpace(text[Len(text)])
    THEN TrimRight(SubSeq(text, 1, Len(text) - 1))
    ELSE text

\* strings.TrimSpace
TrimSpace(text) == TrimRight(TrimLeft(text))

RECURSIVE BriefOf(_, _)
\* generateZaloBrief: brief += "- " + summary[i] + "\n" for the first n items
BriefOf(summary, n) ==
    IF n = 0 THEN <<>>
    ELSE BriefOf(summary, n - 1) \o <<"-", " ">> \o summary[n] \o <<"\n">>

\* min(3, len(summary))
MaxOf3(summary) == IF Len(summary) < 3 THEN Len(summary) ELSE 3

generateZaloBrief(summary) ==
    IF Len(summary) = 0 THEN <<>>
    ELSE TrimSpace(BriefOf(summary, MaxOf3(summary)))

\* AnalyzeTranscript after json.Unmarshal: the context, brief and key point
\* fallbacks, applied in that order
FillMissing(result, detectedContext) ==
    LET r1 == IF result.Context = "" THEN [result EXCEPT !.Context = detectedContext]
              ELSE result
        r2 == IF r1.ZaloBrief = <<>> /\ Len(r1.Summary) > 0
              THEN [r1 EXCEPT !.ZaloBrief = generateZaloBrief(r1.Summary)]
              ELSE r1
    IN IF Len(r2.KeyPoints) = 0 /\ Len(r2.Summary) > 0
       THEN [r2 EXCEPT !.KeyPoints = SubSeq(r2.Summary, 1, MaxOf3(r2.Summary))]
       ELSE r2

\* the model's answer has been parsed
InitFillMissing ==
    /\ InitProgram
    /\ pure \in {[IdlePure EXCEPT !.fn = "FillMissing", !.arg = r] : r \in ParsedResults}
    /\ asks = <<>>
    /\ mem = EmptyMem
    /\ locks = IdleLocks

\* AnalyzeTranscript from the parsed result to its return
CallFillMissing ==
    /\ pure.fn = "FillMissing"
    /\ ~pure.done
    /\ \E detectedContext \in {"meeting", "lecture", "thinking"} :
            pure' = [pure EXCEPT !.out = FillMissing(pure.arg, detectedContext), !.done = TRUE]
    /\ UNCHANGED <<recordings, analyses, sttProvider, sttProviderOnce, env, req>>
    /\ UNCHANGED <<syncVars, sttVars, asks, mem, locks>>

\* ------------------------------------- Transcribe: the backend's response
\* resp.StatusCode: http.StatusOK and a non-success status
StatusCodes == {200, 500}

Messages == {"", "m"}

\* the transcripts an alternative or a hypothesis carries
Utterances == {<<" ">>, <<"h">>}

\* the body of a Google response: something that is not a JSON object, or an
\* object with a top-level message, an optional error object and results,
\* each a list of alternatives
GoogleBodies ==
    {[json |-> FALSE, message |-> "", error |-> <<>>, results |-> <<>>]}
    \cup [json : {TRUE}, message : Messages,
          error : {<<>>} \cup {<<m>> : m \in Messages},
          results : {<<>>, << <<>> >>} \cup {<< <<u>> >> : u \in Utterances}]

\* the body of an FPT.AI response: something that is not a JSON object, or an
\* object with errorCode, message and hypotheses
FPTBodies ==
    {[json |-> FALSE, errorCode |-> 0, message |-> "", hypotheses |-> <<>>]}
    \cup [json : {TRUE}, errorCode : {0, 7}, message : Messages,
          hypotheses : {<<>>} \cup {<<u>> : u \in Utterances}]

\* the result and error of a failed call; an error text is the format's
\* fixed part followed by the values formatted into it
Failed(provider, body, err) ==
    [Transcript |-> <<>>, Provider |-> provider, RawResponse |-> body, err |-> err]

\* GoogleProvider.Transcribe from the response read to its return
GoogleTranscribeResult(resp) ==
    LET body == resp.body
    IN IF resp.StatusCode # 200
       THEN IF body.json
            THEN Failed("google", body,
                        <<"Google Speech-to-Text API error: ", body.message>>)
            ELSE Failed("google", body,
                        <<"Google Speech-to-Text API returned status ", resp.StatusCode, body>>)
       ELSE IF ~body.json
       THEN Failed("google", body, <<"failed to parse Google Speech-to-Text response: ">>)
       ELSE IF body.error # <<>>
       THEN Failed("google", body, <<"Google Speech-to-Text API error: ", body.error[1]>>)
       ELSE IF Len(body.results) = 0
       THEN Failed("google", body, <<"no speech detected in audio">>)
       ELSE IF Len(body.results[1]) = 0
       THEN Failed("google", body, <<"no transcript alternatives returned">>)
       ELSE IF TrimSpace(body.results[1][1]) = <<>>
       THEN Failed("google", body, <<"empty transcript returned">>)
       ELSE [Transcript |-> TrimSpace(body.results[1][1]), Provider |-> "google",
             RawResponse |-> body, err |-> <<>>]

\* FPTProvider.Transcribe from the response read to its return
FPTTranscribeResult(resp) ==
    LET body == resp.body
    IN IF resp.StatusCode # 200
       THEN Failed("fpt", body, <<"FPT.AI API returned status ", resp.StatusCode, body>>)
       ELSE IF ~body.json
       THEN Failed("fpt", body, <<"failed to parse FPT.AI response: ">>)
       ELSE IF body.errorCode # 0
       THEN Failed("fpt", body, <<"FPT.AI API error ", body.errorCode, body.message>>)
       ELSE IF Len(body.hypotheses) = 0
       THEN Failed("fpt", body, <<"no speech detected in audio">>)
       ELSE IF TrimSpace(body.hypotheses[1]) = <<>>
       THEN Failed("fpt", body, <<"empty transcript returned">>)
       ELSE [Transcript |-> TrimSpace(body.hypotheses[1]), Provider |-> "fpt",
             RawResponse |-> body, err |-> <<>>]

TranscribeResult(provider, resp) ==
    IF provider = "google" THEN GoogleTranscribeResult(resp) ELSE FPTTranscribeResult(resp)

\* two calls of one provider, each with the response the backend sent it
InitTranscribeResult ==
    /\ InitProgram
    /\ pure \in
         {[IdlePure EXCEPT !.fn = "Transcribe",
                           !.arg = [provider |-> "google", resps |-> <<r1, r2>>]] :
              r1, r2 \in [StatusCode : StatusCodes, body : GoogleBodies]}
         \cup
         {[IdlePure EXCEPT !.fn = "Transcribe",
                           !.arg = [provider |-> "fpt", resps |-> <<r1, r2>>]] :
              r1, r2 \in [StatusCode : StatusCodes, body : FPTBodies]}
    /\ asks = <<>>
    /\ mem = EmptyMem
    /\ locks = IdleLocks

\* both calls return
CallTranscribeResult ==
    /\ pure.fn = "Transcribe"
    /\ ~pure.done
    /\ pure' = [pure EXCEPT
                    !.out = [i \in 1..2 |-> TranscribeResult(pure.arg.provider,
                                                             pure.arg.resps[i])],
                    !.done = TRUE]
    /\ UNCHANGED <<recordings, analyses, sttProvider, sttProviderOnce, env, req>>
    /\ UNCHANGED <<syncVars, sttVars, asks, mem, locks>>

\* ------------------------------------------------- the mutexes of the stores
\* a call a handler makes: the mutex the callee takes, and whether the callee
\* sends a request to the STT or LLM backend
StoreCall(name, mutex) == [name |-> name, mutex |-> mutex, network |-> FALSE]

NetworkCall(name) == [name |-> name, mutex |-> "", network |-> TRUE]

LocalCall(name) == [name |-> name, mutex |-> "", network |-> FALSE]

\* the calls of each function of the pipeline, in the order it makes them
Programs ==
    [processRecording |->
        <<StoreCall("GetRecording", "mu"), StoreCall("UpdateStatus", "mu"),
          LocalCall("getSTTProvider"), NetworkCall("Transcribe"),
          NetworkCall("CleanTranscriptWithAI"),
          StoreCall("UpdateTranscript", "mu"), StoreCall("UpdateStatus", "mu")>>,
     processRecordingFailed |->
        <<StoreCall("GetRecording", "mu"), StoreCall("UpdateStatus", "mu"),
          LocalCall("getSTTProvider"), NetworkCall("Transcribe"),
          StoreCall("UpdateStatus", "mu"), StoreCall("UpdateError", "mu")>>,
     analyzeRecording |->
        <<StoreCall("GetRecording", "mu"), StoreCall("GetAnalysis", "muAnalysis"),
          NetworkCall("AnalyzeTranscript"), StoreCall("SaveAnalysis", "muAnalysis")>>,
     askAnything |->
        <<StoreCall("GetAllAnalyses", "muAnalysis"), StoreCall("GetRecording", "mu"),
          NetworkCall("AskAnything")>>,
     syncToDatabase |->
        <<StoreCall("GetRecording", "mu"), StoreCall("lookup", "mapMu"),
          LocalCall("Create"), StoreCall("store", "mapMu")>>,
     syncAnalysisToDatabase |->
        <<StoreCall("lookup", "mapMu"), LocalCall("UpdateResult")>>]

\* the call goroutine r is at
CurrentCall(r) == Programs[locks.run[r].handler][locks.run[r].at]

\* goroutine r goes on to its next call, or returns after its last
Advance(run) ==
    IF run.at < Len(Programs[run.handler])
    THEN [run EXCEPT !.at = run.at + 1, !.phase = "before"]
    ELSE [run EXCEPT !.at = 0, !.phase = "done"]

\* a request or a sync call starts
RunBegin(r, handler) ==
    /\ locks.run[r].phase = "idle"
    /\ \A q \in AllReqs : q < r => locks.run[q].phase # "idle"
    /\ locks' = [locks EXCEPT !.run[r] = [handler |-> handler, at |-> 1, phase |-> "before"]]
    /\ UNCHANGED <<recordings, analyses, sttProvider, sttProviderOnce, env, req>>
    /\ UNCHANGED <<syncVars, sttVars, pure, asks, mem>>

\* mu.Lock() in the callee: the goroutine waits until the mutex is free
Lock(r) ==
    /\ locks.run[r].phase = "before"
    /\ CurrentCall(r).mutex # ""
    /\ locks.holder[CurrentCall(r).mutex] = 0
    /\ locks' = [locks EXCEPT !.holder[CurrentCall(r).mutex] = r,
                              !.run[r].phase = "locked"]
    /\ UNCHANGED <<recordings, analyses, sttProvider, sttProviderOnce, env, req>>
    /\ UNCHANGED <<syncVars, sttVars, pure, asks, mem>>

\* mutant: the callee returns without unlocking
AccessKeepsLock(r) ==
    /\ locks.run[r].phase = "locked"
    /\ locks' = [locks EXCEPT !.run[r] = Advance(@)]
    /\ UNCHANGED <<recordings, analyses, sttProvider, sttProviderOnce, env, req>>
    /\ UNCHANGED <<syncVars, sttVars, pure, asks, mem>>

\* the map access and mu.Unlock(), deferred or explicit; the callee returns
Access(r) ==
    /\ locks.run[r].phase = "locked"
    /\ locks' = [locks EXCEPT !.holder[CurrentCall(r).mutex] = 0,
                              !.run[r] = Advance(@)]
    /\ UNCHANGED <<recordings, analyses, sttProvider, sttProviderOnce, env, req>>
    /\ UNCHANGED <<syncVars, sttVars, pure, asks, mem>>

\* a callee that takes no mutex starts: its request is sent
Call(r) ==
    /\ locks.run[r].phase = "before"
    /\ CurrentCall(r).mutex = ""
    /\ locks' = [locks EXCEPT !.run[r].phase = "calling"]
    /\ UNCHANGED <<recordings, analyses, sttProvider, sttProviderOnce, env, req>>
    /\ UNCHANGED <<syncVars, sttVars, pure, asks, mem>>

\* the callee returns
CallReturn(r) ==
    /\ locks.run[r].phase = "calling"
    /\ locks' = [locks EXCEPT !.run[r] = Advance(@)]
    /\ UNCHANGED <<recordings, analyses, sttProvider, sttProviderOnce, env, req>>
    /\ UNCHANGED <<syncVars, sttVars, pure, asks, mem>>

\* the function returns early, between two calls
EarlyReturn(r) ==
    /\ locks.run[r].phase = "before"
    /\ locks.run[r].at > 1
    /\ locks' = [locks EXCEPT !.run[r] = [@ EXCEPT !.at = 0, !.phase = "done"]]
    /\ UNCHANGED <<recordings, analyses, sttProvider, sttProviderOnce, env, req>>
    /\ UNCHANGED <<syncVars, sttVars, pure, asks, mem>>

LocksNext ==
    \/ \E r \in Reqs, handler \in DOMAIN Programs : RunBegin(r, handler)
    \/ \E r \in AllReqs : Lock(r)
    \/ \E r \in AllReqs : Access(r)
    \/ \E r \in AllReqs : Call(r)
    \/ \E r \in AllReqs : CallReturn(r)
    \/ \E r \in AllReqs : EarlyReturn(r)

\* ------------------------------------------- the store's setters on their own
\* the ids of the store on its own: the recording a setter addresses and
\* another one
StoreIds == {1, 2}

\* the setters and the values a caller passes to each
SetterValues ==
    [UpdateStatus |-> {"processing", "failed"},
     UpdateTranscript |-> {<<"raw", 90>>},
     UpdateError |-> {"stt api error"},
     UpdateDuration |-> {5}]

\* storage.SaveAudio called with a new file
StoreSaveAudio ==
    /\ \E id \in StoreIds :
        /\ id \notin DOMAIN recordings
        /\ \A x \in StoreIds : x < id => x \in DOMAIN recordings
        /\ recordings' = SaveAudio(id)
    /\ UNCHANGED <<analyses, sttProvider, sttProviderOnce, env, req>>
    /\ UNCHANGED syncVars
    /\ UNCHANGED sttVars
    /\ UNCHANGED auxVars

\* mutant: the setter also marks the recording processed
ApplySetterMarksProcessed(fn, id, value) ==
    CASE fn = "UpdateStatus" -> UpdateStatus(id, value)
      [] fn = "UpdateTranscript" ->
            IF id \in DOMAIN recordings
            THEN [recordings EXCEPT ![id].Transcript = value[1],
                                    ![id].Confidence = value[2],
                                    ![id].Status = "processed"]
            ELSE recordings
      [] fn = "UpdateError" -> UpdateError(id, value)
      [] OTHER -> UpdateDuration(id, value)

\* the store after the call fn(id, value)
ApplySetter(fn, id, value) ==
    CASE fn = "UpdateStatus" -> UpdateStatus(id, value)
      [] fn = "UpdateTranscript" -> UpdateTranscript(id, value[1], value[2])
      [] fn = "UpdateError" -> UpdateError(id, value)
      [] OTHER -> UpdateDuration(id, value)

\* a caller calls a setter with an id, known to the store or not; the calls
\* are numbered so that a call repeated with the same arguments is seen
CallSetter(fn, id, value) ==
    /\ recordings' = ApplySetter(fn, id, value)
    /\ pure' = [fn |-> fn,
                arg |-> [id |-> id, value |-> value,
                         n |-> IF pure.done THEN 1 - pure.arg.n ELSE 0],
                out |-> <<>>, done |-> TRUE]
    /\ UNCHANGED <<analyses, sttProvider, sttProviderOnce, env, req>>
    /\ UNCHANGED <<syncVars, sttVars, asks, mem, locks>>

StoreNext ==
    \/ StoreSaveAudio
    \/ \E fn \in DOMAIN SetterValues, id \in {EmptyId} \cup StoreIds :
          \E value \in SetterValues[fn] : CallSetter(fn, id, value)

\* ------------------------------------------------------------- askAnything
\* a processed recording, as the store holds it once processRecording is done
ProcessedRecording(id) ==
    [NewRecording(id) EXCEPT !.Status = "processed", !.Transcript = "clean", !.Confidence = 90]

\* the stores after some recordings were processed and some analyzed
StoreStates ==
    {[recordings |-> [id \in 1..n |-> ProcessedRecording(id)], analyses |-> an] :
        n \in 0..MaxRecs, an \in UNION {[S -> AnalysisValues] : S \in SUBSET RecIds}}

\* the request body: unparsable or without question, empty question, a question
Questions == {"missing", "", "q"}

\* ai.AskAnything: OPENAI_API_KEY unset, CreateChatCompletion fails, no
\* choices, an empty content, an answer
AskOutcomes == {"no_key", "api_error", "no_choices", "empty", "ok"}

NoAskResp == [code |-> 0, answer |-> ""]

IdleAsk ==
    [pc |-> "idle", question |-> "", allAnalyses |-> <<>>, seen |-> -1, calls |-> 0,
     outcome |-> "", resp |-> NoAskResp]

\* the handler has returned: the response, what it saw and what it called remain
FinishAsk(q, outcome, code, answer) ==
    [IdleAsk EXCEPT !.pc = "done", !.seen = q.seen, !.calls = q.calls, !.outcome = outcome,
                    !.resp = [code |-> code, answer |-> answer]]

\* recordings were processed and analyzed before the ask requests arrive
InitAsk ==
    /\ \E st \in StoreStates :
        /\ recordings = st.recordings
        /\ analyses = st.analyses
        /\ DOMAIN st.analyses \subseteq DOMAIN st.recordings
    /\ sttProvider = "nil"
    /\ sttProviderOnce = FALSE
    /\ env \in Envs
    /\ req = [r \in AllReqs |-> IdleReq]
    /\ sttRepo = "nil"
    /\ stt_requests = <<>>
    /\ recordingIDToDBUUIDMap = <<>>
    /\ sync = [s \in AllReqs |-> IdleSync]
    /\ providerName = ""
    /\ created = 0
    /\ calls = [c \in Reqs |-> IdleCall]
    /\ disk = {}
    /\ pure = IdlePure
    /\ asks = [a \in Reqs |-> IdleAsk]
    /\ mem = EmptyMem
    /\ locks = IdleLocks

CanBeginAsk(a) ==
    /\ asks[a].pc = "idle"
    /\ \A a2 \in Reqs : a2 < a => asks[a2].pc # "idle"

\* askAnything: ShouldBindJSON and the empty question check
AskBegin(a, question) ==
    /\ CanBeginAsk(a)
    /\ asks' = [asks EXCEPT ![a] =
            IF question \in {"missing", ""}
            THEN FinishAsk(@, "invalid", 400, "")
            ELSE [@ EXCEPT !.pc = "k_get_all", !.question = question]]
    /\ UNCHANGED <<recordings, analyses, sttProvider, sttProviderOnce, env, req>>
    /\ UNCHANGED <<syncVars, sttVars, pure, mem, locks>>

\* askAnything: storage.GetAllAnalyses() and the check that there is one
AskGetAll(a) ==
    /\ asks[a].pc = "k_get_all"
    /\ LET allAnalyses == analyses
           seen == Cardinality(DOMAIN allAnalyses)
       IN asks' = [asks EXCEPT ![a] =
            IF seen = 0
            THEN FinishAsk([@ EXCEPT !.seen = seen], "no_analyses", 400, "")
            ELSE [@ EXCEPT !.pc = "k_call", !.allAnalyses = allAnalyses, !.seen = seen]]
    /\ UNCHANGED <<recordings, analyses, sttProvider, sttProviderOnce, env, req>>
    /\ UNCHANGED <<syncVars, sttVars, pure, mem, locks>>

\* mutant: a failed call is answered all the same
AskCallAnswersAnyway(a) ==
    /\ asks[a].pc = "k_call"
    /\ \E outcome \in AskOutcomes :
        LET called == outcome # "no_key" /\ DOMAIN asks[a].allAnalyses # {}
            q == [asks[a] EXCEPT !.calls = IF called THEN @ + 1 ELSE @]
        IN asks' = [asks EXCEPT ![a] =
            IF outcome = "empty" THEN FinishAsk(q, outcome, 200, "")
            ELSE FinishAsk(q, outcome, 200, "answer")]
    /\ UNCHANGED <<recordings, analyses, sttProvider, sttProviderOnce, env, req>>
    /\ UNCHANGED <<syncVars, sttVars, pure, mem, locks>>

\* ai.AskAnything(req.Question, analysisContexts) and the response
AskCall(a) ==
    /\ asks[a].pc = "k_call"
    /\ \E outcome \in AskOutcomes :
        LET called == outcome # "no_key" /\ DOMAIN asks[a].allAnalyses # {}
            q == [asks[a] EXCEPT !.calls = IF called THEN @ + 1 ELSE @]
        IN asks' = [asks EXCEPT ![a] =
            IF ~called \/ outcome \in {"api_error", "no_choices"}
            THEN FinishAsk(q, outcome, 500, "")
            ELSE IF outcome = "empty" THEN FinishAsk(q, outcome, 200, "")
            ELSE FinishAsk(q, outcome, 200, "answer")]
    /\ UNCHANGED <<recordings, analyses, sttProvider, sttProviderOnce, env, req>>
    /\ UNCHANGED <<syncVars, sttVars, pure, mem, locks>>

\* ------------------------------------------- the analysis store by pointer
\* at most MaxStructs AnalysisResult values and MaxArrays backing arrays
MaxStructs == 3
MaxArrays == 2

Contexts == {"meeting", "lecture"}

\* the summary items a slice element can hold
Elements == {"x", "y"}

\* resultCopy := *result: the fields are copied, a slice field keeps pointing
\* to the same backing array
CopyStruct(m, st) ==
    [m EXCEPT !.structs = Append(@, m.structs[st]),
              !.held = @ \cup {Len(m.structs) + 1}]

\* the caller builds an AnalysisResult and storage.SaveAnalysis keeps the
\* pointer it is given: analyses[recordingID] = result
MemSaveAnalysis(id, context, element) ==
    /\ Len(mem.structs) < MaxStructs
    /\ Len(mem.arrays) < MaxArrays
    /\ LET st == Len(mem.structs) + 1
           arr == Len(mem.arrays) + 1
       IN mem' = [mem EXCEPT
            !.arrays = Append(@, <<element>>),
            !.structs = Append(@, [Context |-> context, Summary |-> arr]),
            !.store = [x \in (DOMAIN @) \cup {id} |-> IF x = id THEN st ELSE @[x]],
            !.held = @ \cup {st}]
    /\ UNCHANGED <<recordings, analyses, sttProvider, sttProviderOnce, env, req>>
    /\ UNCHANGED <<syncVars, sttVars, pure, asks, locks>>

\* storage.GetAnalysis: the caller receives a pointer to a copy of the struct
MemGetAnalysis(id) ==
    /\ id \in DOMAIN mem.store
    /\ Len(mem.structs) < MaxStructs
    /\ mem' = CopyStruct(mem, mem.store[id])
    /\ UNCHANGED <<recordings, analyses, sttProvider, sttProviderOnce, env, req>>
    /\ UNCHANGED <<syncVars, sttVars, pure, asks, locks>>

RECURSIVE CopyAll(_, _)
\* the loop of GetAllAnalyses over the map
CopyAll(m, ids) ==
    IF ids = {} THEN m
    ELSE LET id == CHOOSE x \in ids : TRUE
         IN CopyAll(CopyStruct(m, m.store[id]), ids \ {id})

\* storage.GetAllAnalyses: a new map of pointers to copies of the structs
MemGetAllAnalyses ==
    /\ DOMAIN mem.store # {}
    /\ Len(mem.structs) + Cardinality(DOMAIN mem.store) <= MaxStructs
    /\ mem' = CopyAll(mem, DOMAIN mem.store)
    /\ UNCHANGED <<recordings, analyses, sttProvider, sttProviderOnce, env, req>>
    /\ UNCHANGED <<syncVars, sttVars, pure, asks, locks>>

\* a caller assigns a field of an AnalysisResult it holds
MutateContext(st, context) ==
    /\ st \in mem.held
    /\ mem.structs[st].Context # context
    /\ mem' = [mem EXCEPT !.structs[st].Context = context]
    /\ UNCHANGED <<recordings, analyses, sttProvider, sttProviderOnce, env, req>>
    /\ UNCHANGED <<syncVars, sttVars, pure, asks, locks>>

\* a caller assigns an element of the Summary slice of an AnalysisResult it holds
MutateElement(st, element) ==
    /\ st \in mem.held
    /\ mem.arrays[mem.structs[st].Summary][1] # element
    /\ mem' = [mem EXCEPT !.arrays[mem.structs[st].Summary][1] = element]
    /\ UNCHANGED <<recordings, analyses, sttProvider, sttProviderOnce, env, req>>
    /\ UNCHANGED <<syncVars, sttVars, pure, asks, locks>>

\* what storage.GetAnalysis returns for each id, by value
StoreView(m) ==
    [id \in DOMAIN m.store |->
        [Context |-> m.structs[m.store[id]].Context,
         Summary |-> m.arrays[m.structs[m.store[id]].Summary]]]

\* ---------------------------------------------------------- specifications
\* one step of a running process request
ProcessStep(r) ==
    \/ ProcessSetProcessing(r)
    \/ ProcessGetProvider(r)
    \/ ProcessTranscribe(r)
    \/ ProcessClean(r)
    \/ ProcessUpdateTranscript(r)
    \/ ProcessSetProcessed(r)
    \/ ProcessFailStatus(r)
    \/ ProcessFailError(r)

\* one step of a running handler
Step(r) ==
    \/ ProcessStep(r)
    \/ AnalyzeGetAnalysis(r)
    \/ AnalyzeCall(r)
    \/ AnalyzeSave(r)

\* concurrent requests, MaxReqs of them
Next ==
    \/ Upload
    \/ \E r \in Reqs, id \in ParamIds : ProcessBegin(r, id)
    \/ \E r \in Reqs, id \in ParamIds : AnalyzeBegin(r, id)
    \/ \E r \in AllReqs : Step(r)

Spec == Init /\ [][Next]_vars

\* concurrent requests, one more than in Spec
WideNext ==
    \/ Upload
    \/ \E r \in AllReqs, id \in ParamIds : ProcessBegin(r, id)
    \/ \E r \in AllReqs, id \in ParamIds : AnalyzeBegin(r, id)
    \/ \E r \in AllReqs : Step(r)

SpecWide == Init /\ [][WideNext]_vars

\* requests issued one after another: a request begins when none is running
SeqNext ==
    \/ Upload
    \/ \E r \in AllReqs, id \in ParamIds : Quiet /\ ProcessBegin(r, id)
    \/ \E r \in AllReqs, id \in ParamIds : Quiet /\ AnalyzeBegin(r, id)
    \/ \E r \in AllReqs : Step(r)

SpecSeq == Init /\ [][SeqNext]_vars

\* a handler that has begun runs until it answers: gin serves each request on
\* its own goroutine, and every call it makes to the STT or LLM backend returns
HandlersRun == \A r \in AllReqs : WF_vars(Step(r))

\* requests issued one after another, each served to its answer
SpecSeqFair == SpecSeq /\ HandlersRun

\* a process request for a recording that has not been processed before
ProcessFresh(r, id) ==
    /\ HasRecording(id)
    /\ recordings[id].Status = "uploaded"
    /\ ProcessBegin(r, id)

\* the sync layer beside the processing of fresh recordings, one request at a
\* time: the sync calls run concurrently with the requests and with one another
SyncNext ==
    \/ Upload
    \/ InitSTTRepository
    \/ \E r \in Reqs, id \in RecIds : Quiet /\ ProcessFresh(r, id)
    \/ \E r \in Reqs : ProcessStep(r)
    \/ \E s \in Reqs, id \in ParamIds : SyncBegin(s, id)
    \/ \E s \in Reqs, id \in RecIds, analysis \in AnalysisValues :
            AnalysisSyncBegin(s, id, analysis)
    \/ \E s \in Reqs : SyncStep(s)

SpecSync == Init /\ [][SyncNext]_vars

\* process requests and sync calls, all of them one after another
SyncSeqNext ==
    \/ Upload
    \/ InitSTTRepository
    \/ \E r \in Reqs, id \in RecIds : Quiet /\ SyncQuiet /\ ProcessFresh(r, id)
    \/ \E r \in Reqs : ProcessStep(r)
    \/ \E s \in Reqs, id \in ParamIds : Quiet /\ SyncQuiet /\ SyncBegin(s, id)
    \/ \E s \in Reqs, id \in RecIds, analysis \in AnalysisValues :
            Quiet /\ SyncQuiet /\ AnalysisSyncBegin(s, id, analysis)
    \/ \E s \in Reqs : SyncStep(s)

SpecSyncSeq == Init /\ [][SyncSeqNext]_vars

\* sync calls made one after another, and rows soft-deleted between them
SyncDeleteNext ==
    \/ Upload
    \/ InitSTTRepository
    \/ \E s \in AllReqs, id \in RecIds : SyncQuiet /\ SyncBegin(s, id)
    \/ \E s \in AllReqs, id \in RecIds, analysis \in AnalysisValues :
            SyncQuiet /\ AnalysisSyncBegin(s, id, analysis)
    \/ \E s \in AllReqs : SyncStep(s)
    \/ \E dbUUID \in AllReqs : SyncQuiet /\ RepoDelete(dbUUID)

SpecSyncDelete == Init /\ [][SyncDeleteNext]_vars

\* the repository under concurrent callers
RepoNext ==
    \/ \E s \in AllReqs, metadata \in Metadatas : RepoCreate(s, metadata)
    \/ \E s \in AllReqs, dbUUID \in AllReqs, metadata \in Metadatas :
            RepoUpdateResult(s, dbUUID, metadata)
    \/ \E dbUUID \in AllReqs : RepoDelete(dbUUID)
    \/ \E s \in AllReqs : SyncCreate(s) \/ UpdateGet(s) \/ UpdateExec(s)

SpecRepo == Init /\ [][RepoNext]_vars

\* the stt package under concurrent process requests
STTNext ==
    \/ \E c \in Reqs, path \in RecIds, fileExt \in Extensions, size \in Sizes :
            CallBegin(c, path, fileExt, size)
    \/ \E c \in Reqs :
            CallGetProvider(c) \/ TranscribeConvert(c) \/ TranscribeRead(c) \/ TranscribeSend(c)

SpecSTT == Init /\ [][STTNext]_vars

\* DetectContext applied to each transcript
SpecDetectContext == InitDetectContext /\ [][CallDetectContext]_vars

\* ask requests running concurrently over a filled store
AskNext ==
    \/ \E a \in Reqs, question \in Questions : AskBegin(a, question)
    \/ \E a \in Reqs : AskGetAll(a) \/ AskCall(a)

SpecAsk == InitAsk /\ [][AskNext]_vars

\* callers of the analysis store that change what they hold
MemNext ==
    \/ \E id \in RecIds, context \in Contexts, element \in Elements :
            MemSaveAnalysis(id, context, element)
    \/ \E id \in RecIds : MemGetAnalysis(id)
    \/ MemGetAllAnalyses
    \/ \E st \in 1..MaxStructs, context \in Contexts : MutateContext(st, context)
    \/ \E st \in 1..MaxStructs, element \in Elements : MutateElement(st, element)

SpecMem == Init /\ [][MemNext]_vars

\* the fallbacks applied to each parsed result
SpecFillMissing == InitFillMissing /\ [][CallFillMissing]_vars

\* the goroutines of the pipeline taking the stores' mutexes
SpecLocks == Init /\ [][LocksNext]_vars

\* callers of the recording store's setters, after uploads
SpecStore == Init /\ [][StoreNext]_vars

\* the response handling of Transcribe on pairs of backend responses
SpecTranscribeResult == InitTranscribeResult /\ [][CallTranscribeResult]_vars

\* ------------------------------------------------------------------ claims
ProcessReqs(id) == {r \in AllReqs : req[r].kind = "process" /\ req[r].id = id}

AnalyzeReqs(id) == {r \in AllReqs : req[r].kind = "analyze" /\ req[r].id = id}

\* a process request that passed the status checks and has not returned
PastStatusCheck(r) ==
    req[r].pc \in {"p_set_processing", "p_get_provider", "p_transcribe", "p_clean",
                   "p_update_transcript", "p_set_processed", "p_fail_status", "p_fail_error"}

\* C1: of the process requests running concurrently for one recording id, at
\* most one passes the status check (the others are rejected with a conflict).
C1_AtMostOnePassesTheCheck ==
    \A id \in RecIds : \A r1, r2 \in ProcessReqs(id) :
        (PastStatusCheck(r1) /\ PastStatusCheck(r2)) => r1 = r2

\* C2: a process request that finds the recording processed with a non-empty
\* transcript returns the stored transcript and confidence in that one step,
\* calls neither the STT provider nor the cleaner and leaves the store as it is.
C2_ProcessedIsServedFromStore ==
    [][\A r \in AllReqs, id \in RecIds :
        (/\ req[r].pc = "idle"
         /\ req'[r].pc # "idle"
         /\ req'[r].kind = "process"
         /\ req'[r].id = id
         /\ id \in DOMAIN recordings
         /\ recordings[id].Status = "processed"
         /\ recordings[id].Transcript # "")
        => (/\ req'[r].pc = "done"
            /\ req'[r].resp.code = 200
            /\ req'[r].resp.status = "processed"
            /\ req'[r].resp.transcript = recordings[id].Transcript
            /\ req'[r].resp.confidence = recordings[id].Confidence
            /\ req'[r].stt = "none"
            /\ req'[r].clean = "none"
            /\ recordings' = recordings)]_vars

C2_Witness ==
    \E r \in AllReqs :
        /\ req[r].kind = "process"
        /\ req[r].pc = "done"
        /\ req[r].resp.code = 200
        /\ req[r].stt = "none"
        /\ req[r].resp.transcript # ""

\* C3: for every recording id, no two analyze requests both made a successful
\* extraction call (a request arriving while another is in flight starts none).
C3_AtMostOneExtraction ==
    \A id \in RecIds :
        Cardinality({r \in AnalyzeReqs(id) : req[r].extract = "ok"}) <= 1

\* ---- C4: analyze requests issued one after another (SpecSeq)
\* the analyze requests for id that found a transcript and have returned
Served(id) ==
    {r \in AnalyzeReqs(id) :
        req[r].pc = "done" /\ req[r].resp.kind \in {"cached", "ok", "upstream"}}

Calls(id) == {r \in Served(id) : req[r].extract # "none"}

GoodCalls(id) == {r \in Served(id) : req[r].extract = "ok"}

Hits(id) == {r \in Served(id) : req[r].resp.kind = "cached"}

\* C4 as stated: N>1 analyze requests issued one after another make exactly
\* one extraction call and N-1 cache hits.
C4_ExactlyOneCall ==
    \A id \in RecIds :
        (Quiet /\ Cardinality(Served(id)) > 1)
        => (/\ Cardinality(Calls(id)) = 1
            /\ Cardinality(Hits(id)) = Cardinality(Served(id)) - 1)

\* C4 as amended: of the analyze requests issued one after another at most one
\* makes a successful extraction call, every request after it is a cache hit
\* and makes no call, and every request before it made one call, which failed.
C4_OneSuccessfulCall ==
    \A id \in RecIds :
        Quiet
        => (/\ Cardinality(GoodCalls(id)) <= 1
            /\ \A r \in Served(id) :
                 (\E g \in GoodCalls(id) : g < r)
                 <=> (req[r].resp.kind = "cached" /\ req[r].extract = "none")
            /\ \A r \in Served(id) :
                 (\A g \in GoodCalls(id) : r < g)
                 => (req[r].extract = "error" /\ req[r].resp.code = 500)
            /\ Cardinality(Hits(id)) = Cardinality(Served(id)) - Cardinality(Calls(id)))

C4_Witness ==
    \E id \in RecIds :
        /\ Quiet
        /\ Cardinality(Served(id)) > 1
        /\ Cardinality(GoodCalls(id)) = 1
        /\ Cardinality(Calls(id)) = 1
        /\ Cardinality(Hits(id)) = 1

\* C5: a stored AnalysisResult never changes.
C5_StoredAnalysisNeverChanges ==
    [][\A id \in DOMAIN analyses :
        id \in DOMAIN analyses' /\ analyses'[id] = analyses[id]]_vars

\* C6: a process request that set the recording to processing and then met
\* provider unavailability, a transcription error or an empty transcript
\* returns with the recording failed and a non-empty error text stored, be it
\* the first such request or a later one.
C6_UpstreamFailureIsRecorded ==
    [][\A r \in AllReqs :
        (/\ req[r].kind = "process"
         /\ req[r].pc \in {"p_get_provider", "p_transcribe", "p_fail_status", "p_fail_error"}
         /\ req'[r].pc = "done"
         /\ req'[r].resp.code # 200)
        => (/\ req[r].id \in DOMAIN recordings'
            /\ recordings'[req[r].id].Status = "failed"
            /\ recordings'[req[r].id].Error # ""
            /\ req[r].fail = "stt" => recordings'[req[r].id].Error = req[r].errText)]_vars

\* C7: when the cleaning call fails or yields an empty cleaned text, the request
\* keeps the raw transcript, stores it, sets the recording processed and
\* returns the raw transcript.
CleanerFellBack(q) == q.clean \in {"error", "empty"}

C7_CleanerFallback ==
    [][\A r \in AllReqs :
        /\ (req[r].pc = "p_clean" /\ req'[r].pc # "p_clean" /\ CleanerFellBack(req'[r]))
           => (req'[r].pc = "p_update_transcript" /\ req'[r].cleanedText = req[r].text)
        /\ (req[r].pc = "p_update_transcript" /\ req'[r].pc # "p_update_transcript"
                /\ CleanerFellBack(req[r]))
           => (/\ req'[r].pc = "p_set_processed"
               /\ recordings'[req[r].id].Transcript = req[r].text
               /\ recordings'[req[r].id].Confidence = req[r].conf)
        /\ (req[r].pc = "p_set_processed" /\ req'[r].pc # "p_set_processed"
                /\ CleanerFellBack(req[r]))
           => (/\ req'[r].pc = "done"
               /\ recordings'[req[r].id].Status = "processed"
               /\ req'[r].resp.code = 200
               /\ req'[r].resp.status = "processed"
               /\ req'[r].resp.transcript = req[r].text
               /\ req[r].text # "")]_vars

C7_Witness ==
    \E r \in AllReqs :
        /\ req[r].kind = "process"
        /\ req[r].pc = "done"
        /\ req[r].clean = "error"
        /\ req[r].resp.code = 200
        /\ req[r].resp.transcript = "raw"
        /\ recordings[req[r].id].Status = "processed"

C9_ErrorIffFailed ==
    \A id \in DOMAIN recordings :
        (GetRecording(id).Error # "") <=> (GetRecording(id).Status = "failed")

\* C10: whatever get-recording can observe, a recording with a non-empty
\* transcript or a non-zero confidence has status processed.
C10_TranscriptOnlyWhenProcessed ==
    \A id \in DOMAIN recordings :
        (GetRecording(id).Transcript # "" \/ GetRecording(id).Confidence # 0)
        => GetRecording(id).Status = "processed"

\* C11: a process or analyze request with an empty id is rejected as invalid,
\* one for an unknown id as not found, a process request for a processing
\* recording as a conflict, an analyze request for a recording without a
\* transcript as invalid; a request rejected so changes neither the recording
\* store nor the analysis cache and has made no STT, cleaner or extraction call.
C11_RejectionChangesNothing ==
    [][\A r \in AllReqs :
        (req[r].pc = "idle" /\ req'[r].pc # "idle")
        => (/\ req'[r].id = EmptyId
                => (req'[r].pc = "done" /\ req'[r].resp.code = 400)
            /\ (req'[r].id # EmptyId /\ req'[r].id \notin DOMAIN recordings)
                => (req'[r].pc = "done" /\ req'[r].resp.code = 404)
            /\ (/\ req'[r].kind = "process"
                /\ req'[r].id \in DOMAIN recordings
                /\ recordings[req'[r].id].Status = "processing")
                => (req'[r].pc = "done" /\ req'[r].resp.code = 409)
            /\ (/\ req'[r].kind = "analyze"
                /\ req'[r].id \in DOMAIN recordings
                /\ recordings[req'[r].id].Transcript = "")
                => (req'[r].pc = "done" /\ req'[r].resp.code = 400)
            /\ (req'[r].pc = "done" /\ req'[r].resp.code \in {400, 404, 409})
                => (/\ recordings' = recordings
                    /\ analyses' = analyses
                    /\ req'[r].stt = "none"
                    /\ req'[r].clean = "none"
                    /\ req'[r].extract = "none"))]_vars

C11_Witness ==
    \E r \in AllReqs :
        /\ req[r].kind = "process"
        /\ req[r].pc = "done"
        /\ req[r].resp.code = 409
        /\ recordings[req[r].id].Status = "processing"

\* ---- C12..C16: the durable sync layer
\* the rows created for a recording id
RowsOf(id) ==
    {u \in DOMAIN stt_requests :
        /\ "recording_id" \in DOMAIN stt_requests[u].Metadata
        /\ stt_requests[u].Metadata["recording_id"] = id}

\* C12: under any interleaving of sync calls the durable table holds at most
\* one row created for a recording id.
C12_AtMostOneRow ==
    \A id \in RecIds : Cardinality(RowsOf(id)) <= 1

\* a sync call whose update statement is applied in this step
Updates(s) ==
    /\ sync[s].pc = "u_exec"
    /\ sync'[s].pc = "done"
    /\ ~sync'[s].failed
    /\ sync[s].dbreq.ID \in DOMAIN stt_requests

\* C13: with sync calls made one after another, the update of an analysis sync
\* leaves the row's transcript and confidence as they were and the row's
\* metadata holding the analysis and the recording id; the update of a
\* recording sync leaves the metadata as it was and the row holding the
\* recording's transcript and confidence; and the recording has one row.
C13_TranscriptAndAnalysisBothKept ==
    [][\A s \in AllReqs :
        Updates(s)
        => LET u == sync[s].dbreq.ID
               old == stt_requests[u]
               new == stt_requests'[u]
           IN /\ sync[s].kind = "analysis"
                    => (/\ new.Transcript = old.Transcript
                        /\ new.Confidence = old.Confidence
                        /\ DOMAIN new.Metadata = {"recording_id", "ai_analysis"}
                        /\ new.Metadata["ai_analysis"] = sync[s].dbreq.Metadata["ai_analysis"]
                        /\ new.Metadata["recording_id"] = sync[s].id)
              /\ sync[s].kind = "recording"
                    => (/\ new.Metadata = old.Metadata
                        /\ sync[s].rec.Transcript # ""
                            => (/\ new.Transcript = sync[s].rec.Transcript
                                /\ new.Confidence = sync[s].rec.Confidence))
              /\ Cardinality({x \in DOMAIN stt_requests' :
                                 stt_requests'[x].Metadata["recording_id"] = sync[s].id}) = 1]_vars

C13_Witness ==
    \E u \in DOMAIN stt_requests :
        /\ stt_requests[u].Transcript \notin {NullStr, ""}
        /\ stt_requests[u].Confidence # NullNum
        /\ "ai_analysis" \in DOMAIN stt_requests[u].Metadata
        /\ \E s \in AllReqs : sync[s].kind = "analysis" /\ sync[s].pc = "done" /\ sync[s].ret = u

\* a text column holds a value
Populated(v) == v \notin {NullStr, ""}

\* a numeric column holds a value
PopulatedNum(v) == v # NullNum

\* C14: an update leaves every column it does not carry as it was and never
\* turns a populated column (transcript, confidence, status, error message,
\* duration, size) into an empty one.
C14_UpdateKeepsPopulatedFields ==
    [][\A s \in AllReqs :
        Updates(s)
        => LET dbreq == sync[s].dbreq
               old == stt_requests[dbreq.ID]
               new == stt_requests'[dbreq.ID]
           IN /\ ~Populated(dbreq.Transcript) => new.Transcript = old.Transcript
              /\ ~PopulatedNum(dbreq.Confidence) => new.Confidence = old.Confidence
              /\ ~Populated(dbreq.Status) => new.Status = old.Status
              /\ ~Populated(dbreq.ErrorMessage) => new.ErrorMessage = old.ErrorMessage
              /\ ~PopulatedNum(dbreq.AudioDurationMs) => new.AudioDurationMs = old.AudioDurationMs
              /\ ~PopulatedNum(dbreq.AudioSizeBytes) => new.AudioSizeBytes = old.AudioSizeBytes
              /\ Populated(old.Transcript) => Populated(new.Transcript)
              /\ PopulatedNum(old.Confidence) => PopulatedNum(new.Confidence)
              /\ Populated(old.Status) => Populated(new.Status)
              /\ Populated(old.ErrorMessage) => Populated(new.ErrorMessage)
              /\ PopulatedNum(old.AudioDurationMs) => PopulatedNum(new.AudioDurationMs)
              /\ PopulatedNum(old.AudioSizeBytes) => PopulatedNum(new.AudioSizeBytes)]_vars

C14_Witness ==
    \E u \in DOMAIN stt_requests :
        /\ stt_requests[u].Status = "success"
        /\ Populated(stt_requests[u].ErrorMessage)
        /\ PopulatedNum(stt_requests[u].AudioSizeBytes)

C16_SyncIsAdvisory ==
    [][\A s \in AllReqs :
        /\ (sync[s].pc = "idle" /\ sync'[s].pc # "idle" /\ sttRepo = "nil")
            => (/\ sync'[s].pc = "done"
                /\ sync'[s].ret = 0
                /\ UNCHANGED <<stt_requests, recordingIDToDBUUIDMap>>)
        /\ (sync'[s].pc = "done" /\ sync[s].pc # "done" /\ sync'[s].failed)
            => (/\ sync'[s].ret = 0
                /\ UNCHANGED <<stt_requests, recordingIDToDBUUIDMap>>)
        /\ (sync[s].pc = "c_exec" /\ sync'[s] # sync[s] /\ stt_requests' = stt_requests)
            => (/\ sync'[s].pc = "done"
                /\ sync'[s].ret = 0
                /\ sync'[s].failed)
        /\ recordingIDToDBUUIDMap' # recordingIDToDBUUIDMap
            => \A id \in DOMAIN recordingIDToDBUUIDMap' :
                   recordingIDToDBUUIDMap'[id] \in DOMAIN stt_requests'
        /\ sync'[s] # sync[s] => UNCHANGED <<recordings, analyses>>]_vars

C16_Witness ==
    \E s \in AllReqs :
        /\ sync[s].kind = "recording"
        /\ sync[s].pc = "done"
        /\ sync[s].failed
        /\ sync[s].id \notin DOMAIN recordingIDToDBUUIDMap

\* ---- C17..C20: the stt package
\* C17: stt.CreateProvider runs at most once; once it has run the stored
\* provider never changes; and every caller of getSTTProvider leaves it with
\* the stored provider.
C17_ProviderConstructedOnce ==
    [][/\ created' <= 1
       /\ sttProviderOnce => (sttProviderOnce' /\ sttProvider' = sttProvider)
       /\ \A c \in Reqs :
            (calls[c].pc = "get_provider" /\ calls'[c].pc # "get_provider")
            => /\ sttProviderOnce' /\ created' = 1
               /\ calls'[c].pc # "done" => calls'[c].provider = sttProvider']_vars

C17_Witness ==
    /\ created = 1
    /\ \A c \in Reqs : calls[c].pc = "done" /\ calls[c].provider = "provider"
    /\ sttProvider = "provider"

\* C18: a call that read fewer audio bytes than the threshold has returned an
\* error and has sent no HTTP request, in both providers.
C18_SmallFileRejectedBeforeRequest ==
    \A c \in Reqs :
        (calls[c].audioBytes # NotRead /\ calls[c].audioBytes < MinAudioBytes)
        => /\ calls[c].pc = "done"
           /\ calls[c].err # ""
           /\ calls[c].requests = 0

C18_Witness ==
    \E c \in Reqs :
        /\ providerName = "google"
        /\ calls[c].pc = "done"
        /\ calls[c].audioBytes = MinAudioBytes - 1
        /\ calls[c].outcome = "file_error"
        /\ calls[c].requests = 0

\* C19: when Transcribe returns for an .m4a or .aac input and no other call is
\* working on the same path, the path's .converted.wav file does not exist.
C19_ConvertedFileRemoved ==
    [][\A c \in Reqs :
        (/\ calls[c].pc \in {"t_convert", "t_read", "t_send"}
         /\ calls'[c].pc = "done"
         /\ NeedsConversion(calls[c].fileExt)
         /\ \A c2 \in Reqs \ {c} :
                calls[c2].path = calls[c].path => calls[c2].pc \in {"idle", "get_provider", "done"})
        => calls[c].path \notin disk']_vars

\* C20: a process request calls Transcribe at most once, a Transcribe call
\* sends at most one HTTP request, and a call that failed has handed its
\* error to the caller.
C20_NothingRetried ==
    \A c \in Reqs :
        /\ calls[c].transcribes <= 1
        /\ calls[c].requests <= 1
        /\ (calls[c].pc = "done"
            /\ calls[c].outcome \in {"provider_error", "file_error", "http_error", "empty"})
           => calls[c].err # ""

C20_Witness ==
    \E c \in Reqs :
        /\ calls[c].pc = "done"
        /\ calls[c].outcome = "http_error"
        /\ calls[c].transcribes = 1
        /\ calls[c].requests = 1
        /\ calls[c].err # ""

\* ---- C21: DetectContext
\* the keywords of a list that occur in the lowercased transcript
Occurring(transcript, keywords) ==
    {k \in {keywords[i] : i \in DOMAIN keywords} : Contains(ToLower(transcript), k)}

\* C21: the context returned is meeting when the set of occurring meeting
\* keywords is non-empty and at least as large as the set of occurring lecture
\* keywords, otherwise lecture when that set is non-empty, otherwise thinking:
\* a function of the two sets alone.
C21_DetectContextRule ==
    (pure.fn = "DetectContext" /\ pure.done)
    => LET m == Cardinality(Occurring(pure.arg, meetingKeywords))
           l == Cardinality(Occurring(pure.arg, lectureKeywords))
       IN pure.out = (IF m > 0 /\ m >= l THEN "meeting"
                      ELSE IF l > 0 THEN "lecture"
                      ELSE "thinking")

C21_Witness ==
    /\ pure.fn = "DetectContext"
    /\ pure.done
    /\ pure.arg = <<"thay", "cong viec", "HOP">>
    /\ pure.out = "meeting"

\* ---- C22: the brief and key point fallbacks
RECURSIVE BulletLines(_, _)
\* the first n items, each behind "- ", one per line
BulletLines(summary, n) ==
    IF n = 0 THEN <<>>
    ELSE IF n = 1 THEN <<"-", " ">> \o summary[1]
    ELSE BulletLines(summary, n - 1) \o <<"\n">> \o <<"-", " ">> \o summary[n]

\* C22: for a parsed result with a non-empty summary, an empty brief becomes
\* the first min(3, len) summary items, each behind the bullet marker, one per
\* line; empty key points become the first min(3, len) summary items; and a
\* brief, key points, summary or action items that came non-empty are as
\* they came.
C22_FallbacksFromSummary ==
    (pure.fn = "FillMissing" /\ pure.done /\ Len(pure.arg.Summary) > 0)
    => LET n == IF Len(pure.arg.Summary) < 3 THEN Len(pure.arg.Summary) ELSE 3
       IN /\ pure.out.ZaloBrief = IF pure.arg.ZaloBrief = <<>>
                                  THEN BulletLines(pure.arg.Summary, n)
                                  ELSE pure.arg.ZaloBrief
          /\ pure.out.KeyPoints = IF pure.arg.KeyPoints = <<>>
                                  THEN SubSeq(pure.arg.Summary, 1, n)
                                  ELSE pure.arg.KeyPoints
          /\ pure.out.Summary = pure.arg.Summary
          /\ pure.out.ActionItems = pure.arg.ActionItems

\* ---- C23: askAnything
\* C23: an ask request that found no analysis cached has answered with an
\* error and called the model not once; an ask request whose model call
\* failed (no key, API error, no choices) has answered with an error; and an
\* error response carries no answer.
C23_AskFailuresAreReported ==
    \A a \in Reqs :
        asks[a].pc = "done"
        => /\ asks[a].seen = 0
                => (asks[a].resp.code \in {400, 500} /\ asks[a].calls = 0)
           /\ asks[a].outcome \in {"no_key", "api_error", "no_choices"}
                => asks[a].resp.code = 500
           /\ asks[a].resp.code # 200 => asks[a].resp.answer = ""
           /\ asks[a].calls <= 1

C23_Witness ==
    /\ \E a \in Reqs :
        /\ asks[a].pc = "done"
        /\ asks[a].outcome = "api_error"
        /\ asks[a].calls = 1
        /\ asks[a].resp.code = 500
    /\ analyses # <<>>

\* ---- C24: the stores hand out and keep copies
\* C24: a step in which a caller changes an AnalysisResult it holds (one it
\* passed to SaveAnalysis or received from GetAnalysis or GetAllAnalyses, a
\* field or a slice element) leaves what the store returns unchanged.
C24_StoreHoldsCopies ==
    [][(mem' # mem /\ mem'.store = mem.store /\ mem'.held = mem.held)
       => StoreView(mem') = StoreView(mem)]_vars

\* ---- C25..C29: the pipeline's error reporting and status changes
\* C25: a request that ends with an error reports the status code of its
\* error kind: rejected on arrival, 400 for an empty id or a recording without
\* transcript, 404 for an unknown id, 409 for a process request on a processing
\* recording; ended because the audio file could not be used, 400; ended after
\* the provider was unavailable or an upstream STT or LLM call failed or
\* came back empty, 500.
C25_ErrorKindsMapToStatusCodes ==
    [][\A r \in AllReqs :
        (req[r].pc # "done" /\ req'[r].pc = "done" /\ req'[r].resp.code # 200)
        => req'[r].resp.code =
               (IF req[r].pc = "p_fail_error" /\ req[r].fail = "stt"
                   /\ req[r].errText = Transcribe("file_error", 0).err THEN 400
                ELSE IF req[r].pc # "idle" THEN 500
                ELSE IF req'[r].id = EmptyId THEN 400
                ELSE IF req'[r].id \notin DOMAIN recordings THEN 404
                ELSE IF req'[r].kind = "process" THEN 409
                ELSE 400)]_vars

\* C26: while every STT and LLM call returns, a recording that a process
\* request set to processing is later set to processed or to failed: no
\* recording stays in processing for ever.
C26_ProcessingEnds ==
    \A id \in RecIds :
        (GetRecording(id).Status = "processing")
        ~> (GetRecording(id).Status \in {"processed", "failed"})

\* C27: a call of getSTTProvider that returns no usable provider, on the first
\* call or on any later one, returns an error with it: never a nil provider
\* with a nil error.
C27_NilProviderComesWithError ==
    [][\A r \in AllReqs :
        (req[r].pc = "p_get_provider" /\ req'[r].pc # "p_get_provider"
         /\ getSTTProvider.provider \in {"nil", "nil_google"})
        => getSTTProvider.err # ""]_vars

\* C28: once a recording is processed with a non-empty transcript, no step of
\* any concurrent request changes its status, its transcript or its
\* confidence.
C28_ProcessedResultIsStable ==
    [][\A id \in DOMAIN recordings :
        (recordings[id].Status = "processed" /\ recordings[id].Transcript # "")
        => /\ recordings'[id].Status = recordings[id].Status
           /\ recordings'[id].Transcript = recordings[id].Transcript
           /\ recordings'[id].Confidence = recordings[id].Confidence]_vars

\* C29: a recording's status becomes failed only in a process request for it
\* that met an upstream STT error: the provider was unavailable, the
\* transcription returned an error or the transcript was empty. The request
\* has not reached the cleaner; no analyze request and no rejected request
\* sets it.
C29_FailedOnlyFromSTTError ==
    [][\A id \in DOMAIN recordings :
        (recordings[id].Status # "failed" /\ recordings'[id].Status = "failed")
        => \E r \in AllReqs :
              /\ req[r].kind = "process"
              /\ req[r].id = id
              /\ req[r].pc = "p_fail_status"
              /\ req'[r].pc = "p_fail_error"
              /\ req[r].fail \in {"provider", "stt", "empty"}
              /\ req[r].clean = "none"]_vars

\* a recording failed by a request whose transcription returned an error,
\* beside a finished analyze request that was answered an error
C29_Witness ==
    \E r, q \in AllReqs :
        /\ req[r].kind = "process"
        /\ req[r].pc = "done"
        /\ req[r].stt = "error"
        /\ req[r].clean = "none"
        /\ req[r].resp.code # 200
        /\ HasRecording(req[r].id)
        /\ recordings[req[r].id].Status = "failed"
        /\ req[q].kind = "analyze"
        /\ req[q].pc = "done"
        /\ req[q].resp.code # 200

\* ---- C30: the id mapping of the durable sync layer
\* C30: once recordingIDToDBUUIDMap holds a recording id, no step changes the
\* id's mapping or the set of rows created for it, and a recording sync of
\* the id that ends without an error returns the mapped durable id.
C30_MappingIsStable ==
    [][\A id \in DOMAIN recordingIDToDBUUIDMap :
        /\ id \in DOMAIN recordingIDToDBUUIDMap'
        /\ recordingIDToDBUUIDMap'[id] = recordingIDToDBUUIDMap[id]
        /\ RowsOf(id)' = RowsOf(id)
        /\ \A s \in AllReqs :
              (sync[s].kind = "recording" /\ sync[s].id = id
               /\ sync[s].pc # "done" /\ sync'[s].pc = "done" /\ ~sync'[s].failed)
              => sync'[s].ret = recordingIDToDBUUIDMap[id]]_vars

\* ---- C31: the sync layer reads recordings only
\* C31: a step of a syncToDatabase or syncAnalysisToDatabase call, ending in
\* success or in an error, leaves every recording's status, transcript,
\* confidence and error message in the in-memory store as they were.
C31_SyncNeverModifiesRecording ==
    [][\A s \in AllReqs :
        (sync'[s] # sync[s] /\ sync'[s].kind \in {"recording", "analysis"})
        => /\ DOMAIN recordings' = DOMAIN recordings
           /\ \A id \in DOMAIN recordings :
                 /\ recordings'[id].Status = recordings[id].Status
                 /\ recordings'[id].Transcript = recordings[id].Transcript
                 /\ recordings'[id].Confidence = recordings[id].Confidence
                 /\ recordings'[id].Error = recordings[id].Error]_vars

\* a recording sync and an analysis sync of a processed recording have ended,
\* one of them with an error
C31_Witness ==
    \E s, t \in AllReqs :
        /\ sync[s].kind = "recording" /\ sync[s].pc = "done"
        /\ sync[t].kind = "analysis" /\ sync[t].pc = "done"
        /\ sync[s].id = sync[t].id
        /\ sync[s].failed \/ sync[t].failed
        /\ HasRecording(sync[s].id)
        /\ recordings[sync[s].id].Status = "processed"

\* ---- C32: when the repairs of a parsed answer apply
\* C32: a field of the parsed result that AnalyzeTranscript altered, the
\* context included, was empty in a result whose summary is not empty; a
\* result with an empty summary is returned as it was parsed.
C32_RepairsNeedSummary ==
    (pure.fn = "FillMissing" /\ pure.done)
    => /\ Len(pure.arg.Summary) = 0 => pure.out = pure.arg
       /\ pure.out.Context # pure.arg.Context
            => (pure.arg.Context = "" /\ Len(pure.arg.Summary) > 0)
       /\ pure.out.ZaloBrief # pure.arg.ZaloBrief
            => (pure.arg.ZaloBrief = <<>> /\ Len(pure.arg.Summary) > 0)
       /\ pure.out.KeyPoints # pure.arg.KeyPoints
            => (pure.arg.KeyPoints = <<>> /\ Len(pure.arg.Summary) > 0)

\* ---- C33: the rejections of a backend response
\* why a response is rejected: a non-success HTTP status, an error field in
\* the parsed response, no result or hypothesis, a transcript empty after
\* trimming
Rejection(provider, resp) ==
    LET body == resp.body
        first == IF provider = "google"
                 THEN (IF Len(body.results) = 0 THEN <<>> ELSE body.results[1])
                 ELSE body.hypotheses
    IN IF resp.StatusCode # 200 THEN "http_status"
       ELSE IF ~body.json THEN "other"
       ELSE IF provider = "google" /\ body.error # <<>> THEN "error_field"
       ELSE IF provider = "fpt" /\ body.errorCode # 0 THEN "error_field"
       ELSE IF provider = "google" /\ Len(body.results) = 0 THEN "no_results"
       ELSE IF Len(first) = 0 THEN (IF provider = "fpt" THEN "no_results" ELSE "other")
       ELSE IF TrimSpace(first[1]) = <<>> THEN "empty_transcript"
       ELSE "other"

\* C33: two responses rejected for different ones of the four reasons give
\* different errors, and each rejected response is returned as the raw
\* response beside its error.
C33_RejectionsAreDistinguishable ==
    (pure.fn = "Transcribe" /\ pure.done)
    => LET provider == pure.arg.provider
           why == [i \in 1..2 |-> Rejection(provider, pure.arg.resps[i])]
       IN /\ \A i \in 1..2 :
                why[i] # "other"
                => /\ pure.out[i].err # <<>>
                   /\ pure.out[i].RawResponse = pure.arg.resps[i].body
          /\ (why[1] # "other" /\ why[2] # "other" /\ why[1] # why[2])
                => pure.out[1].err # pure.out[2].err

\* ---- C34: the stores' mutexes and the calls to the backends
\* C34: a goroutine holds a mutex of the recording store, the analysis cache
\* or the id mapping only inside the store call that took it, and holds none
\* while a call of it to the STT or LLM backend is under way.
C34_NoNetworkCallUnderLock ==
    \A r \in AllReqs :
        /\ \A m \in Mutexes :
              locks.holder[m] = r
              => (locks.run[r].phase = "locked" /\ CurrentCall(r).mutex = m)
        /\ (locks.run[r].phase = "calling" /\ CurrentCall(r).network)
              => \A m \in Mutexes : locks.holder[m] # r

\* one goroutine is inside Transcribe while another holds the recording
\* store's mutex
C34_Witness ==
    \E r, q \in AllReqs :
        /\ locks.run[r].phase = "calling"
        /\ CurrentCall(r).name = "Transcribe"
        /\ locks.run[q].phase = "locked"
        /\ locks.holder["mu"] = q

\* ---- C35: what a setter of the recording store changes
\* the fields each setter is to change
OwnFields ==
    [UpdateStatus |-> {"Status"},
     UpdateTranscript |-> {"Transcript", "Confidence"},
     UpdateError |-> {"Error"},
     UpdateDuration |-> {"Duration"}]

\* C35: a call of UpdateStatus, UpdateTranscript, UpdateError or
\* UpdateDuration leaves the set of entries as it was, changes no field of
\* another recording and no field of the addressed one but its own, id, path
\* and createdAt included; on an unknown id it changes nothing.
C35_SetterChangesOwnFieldsOnly ==
    [][pure' # pure
       => LET fn == pure'.fn
              id == pure'.arg.id
          IN /\ DOMAIN recordings' = DOMAIN recordings
             /\ \A x \in DOMAIN recordings :
                  \A f \in DOMAIN recordings[x] :
                     recordings'[x][f] # recordings[x][f]
                     => (x = id /\ f \in OwnFields[fn])
             /\ id \notin DOMAIN recordings => recordings' = recordings]_vars

\* UpdateTranscript has set the transcript of a recording that is still
\* uploaded, in a store that holds another recording too
C35_Witness ==
    /\ pure.fn = "UpdateTranscript"
    /\ pure.done
    /\ DOMAIN recordings = StoreIds
    /\ HasRecording(pure.arg.id)
    /\ recordings[pure.arg.id].Transcript = pure.arg.value[1]
    /\ recordings[pure.arg.id].Status = "uploaded"
    /\ recordings[pure.arg.id].Path = pure.arg.id

\* ---- C36, C37: what the store holds after a request
\* C36: a recording whose status is processed has a transcript that is not
\* empty, in every state of concurrent requests.
C36_ProcessedHasTranscript ==
    \A id \in DOMAIN recordings :
        recordings[id].Status = "processed" => recordings[id].Transcript # ""

\* a recording processed by a request whose cleaning call returned an empty
\* text
C36_Witness ==
    \E r \in AllReqs :
        /\ req[r].kind = "process"
        /\ req[r].pc = "done"
        /\ req[r].clean = "empty"
        /\ HasRecording(req[r].id)
        /\ recordings[req[r].id].Status = "processed"

\* C37: with requests made one after another, the step in which the
\* extraction call of an analyze request fails changes no recording and stores
\* no analysis, and leaves the id without one; and an analyze request that
\* finds no analysis for its id goes on to call the engine.
C37_FailedExtractionStoresNothing ==
    [][\A r \in AllReqs :
        /\ (req[r].pc = "a_analyze" /\ req'[r].pc = "done")
              => /\ req'[r].resp.code = 500
                 /\ analyses' = analyses
                 /\ recordings' = recordings
                 /\ req[r].id \notin DOMAIN analyses'
        /\ (req[r].pc = "a_get_analysis" /\ req[r].id \notin DOMAIN analyses
             /\ req'[r] # req[r])
              => req'[r].pc = "a_analyze"]_vars

\* after a request whose extraction failed, a later analyze request for the
\* same id has called the engine again and stored its result
C37_Witness ==
    \E q, r \in AllReqs :
        /\ q < r
        /\ req[q].kind = "analyze" /\ req[q].pc = "done" /\ req[q].extract = "error"
        /\ req[r].kind = "analyze" /\ req[r].pc = "done" /\ req[r].extract = "ok"
        /\ req[r].id = req[q].id
        /\ req[r].id \in DOMAIN analyses

\* ---- C38: soft-deleted rows and later syncs
\* C38: no step changes the status of a soft-deleted row away from deleted
\* or changes the metadata stored in it.
C38_DeletedStaysDeleted ==
    [][\A u \in DOMAIN stt_requests :
        stt_requests[u].Status = "deleted"
        => /\ stt_requests'[u].Status = "deleted"
           /\ stt_requests'[u].Metadata = stt_requests[u].Metadata]_vars

\* ---- C39: concurrent Transcribe calls on one input file
\* C39: while a call that converted its input has yet to read the converted
\* file, the file exists, no step of another call removes it and no other
\* call converts the same input over it.
C39_ConvertedFileIsOwn ==
    [][\A c \in Reqs :
        (calls[c].pc = "t_read" /\ calls[c].needsCleanup)
        => /\ calls[c].path \in disk
           /\ \A d \in Reqs \ {c} :
                 calls'[d] # calls[d]
                 => /\ calls[c].path \in disk'
                    /\ ~(calls[d].pc = "t_convert" /\ calls[d].path = calls[c].path)]_vars

====
